---- MODULE Spec2Model ----
(***************************************************************************)
(* A model of koute/linux-input: the raw event codec, the capability       *)
(* bitmask iterator, the poll layer, the force-feedback effect codec, the  *)
(* creation protocol of a virtual device, its force-feedback transaction   *)
(* guards, and an opened Device with its reads and emits.                  *)
(*                                                                         *)
(* Every component has its own specification (SpecCodec, SpecBits,         *)
(* SpecPoll, SpecEffect, SpecCreate, SpecGuard, SpecDevice).  A            *)
(* specification drives only the variables of its component; the others    *)
(* stay at their idle value.                                               *)
(***************************************************************************)
EXTENDS Integers, Sequences, FiniteSets, TLC

VARIABLES
  codec,    \* raw event codec: the input, the conversions applied, the value
  iter,     \* EventBitsIter: its fields and the history of next() results
  poll,     \* poll_read: the history of calls
  effect,   \* force-feedback effect codec: input, conversions, value
  create,   \* VirtualDevice::create: the arguments, the kernel calls, the result
  vdev,     \* a created VirtualDevice, its guards and the kernel's ioctl log
  dev,      \* a Device: its handle, the kernel's event queue, the last call
  time      \* two Timestamps and the result of subtracting them

vars == <<codec, iter, poll, effect, create, vdev, dev, time>>

Idle == [pc |-> "idle"]

(***************************************************************************)
(* Integer widths.                                                         *)
(***************************************************************************)
U16Max == 65535
I32Min == -2147483647 - 1
I32Max == 2147483647

Max(a, b) == IF a >= b THEN a ELSE b

(***************************************************************************)
(* define_enum!: an enumeration of named codes plus the Other(n) fallback. *)
(* A table lists the <<variant, value>> pairs in declaration order, as     *)
(* the macro's LIST does.  An enum value is [variant |-> name, inner |-> n]*)
(* where inner is the payload of Other and 0 for a named variant.          *)
(***************************************************************************)
EventKindList ==
  <<
    <<"Synchronization", 0>>, <<"Key", 1>>, <<"RelativeAxis", 2>>, <<"AbsoluteAxis", 3>>,
    <<"Misc", 4>>, <<"Switch", 5>>, <<"LED", 17>>, <<"Sound", 18>>, <<"AutoRepeat", 20>>,
    <<"ForceFeedback", 21>>, <<"Power", 22>>, <<"ForceFeedbackStatus", 23>>
  >>

KeyList ==
  <<
    <<"Escape", 1>>, <<"Digit1", 2>>, <<"Digit2", 3>>, <<"Digit3", 4>>, <<"Digit4", 5>>,
    <<"Digit5", 6>>, <<"Digit6", 7>>, <<"Digit7", 8>>, <<"Digit8", 9>>, <<"Digit9", 10>>,
    <<"Digit0", 11>>, <<"Minus", 12>>, <<"Equal", 13>>, <<"Backspace", 14>>, <<"Tab", 15>>,
    <<"Q", 16>>, <<"W", 17>>, <<"E", 18>>, <<"R", 19>>, <<"T", 20>>, <<"Y", 21>>, <<"U", 22>>,
    <<"I", 23>>, <<"O", 24>>, <<"P", 25>>, <<"LeftBrace", 26>>, <<"RightBrace", 27>>,
    <<"Enter", 28>>, <<"LeftCtrl", 29>>, <<"A", 30>>, <<"S", 31>>, <<"D", 32>>, <<"F", 33>>,
    <<"G", 34>>, <<"H", 35>>, <<"J", 36>>, <<"K", 37>>, <<"L", 38>>, <<"Semicolon", 39>>,
    <<"Apostrophe", 40>>, <<"Grave", 41>>, <<"LeftShift", 42>>, <<"Backslash", 43>>,
    <<"Z", 44>>, <<"X", 45>>, <<"C", 46>>, <<"V", 47>>, <<"B", 48>>, <<"N", 49>>, <<"M", 50>>,
    <<"Comma", 51>>, <<"Dot", 52>>, <<"Slash", 53>>, <<"RightShift", 54>>,
    <<"KeypadAsterisk", 55>>, <<"LeftAlt", 56>>, <<"Space", 57>>, <<"CapsLock", 58>>,
    <<"F1", 59>>, <<"F2", 60>>, <<"F3", 61>>, <<"F4", 62>>, <<"F5", 63>>, <<"F6", 64>>,
    <<"F7", 65>>, <<"F8", 66>>, <<"F9", 67>>, <<"F10", 68>>, <<"NumLock", 69>>,
    <<"ScrollLock", 70>>, <<"Keypad7", 71>>, <<"Keypad8", 72>>, <<"Keypad9", 73>>,
    <<"KeypadMinus", 74>>, <<"Keypad4", 75>>, <<"Keypad5", 76>>, <<"Keypad6", 77>>,
    <<"KeypadPlus", 78>>, <<"Keypad1", 79>>, <<"Keypad2", 80>>, <<"Keypad3", 81>>,
    <<"Keypad0", 82>>, <<"KeypadDot", 83>>, <<"F11", 87>>, <<"F12", 88>>,
    <<"KeypadEnter", 96>>, <<"RightCtrl", 97>>, <<"KeypadSlash", 98>>, <<"SysRq", 99>>,
    <<"RightAlt", 100>>, <<"Home", 102>>, <<"Up", 103>>, <<"PageUp", 104>>, <<"Left", 105>>,
    <<"Right", 106>>, <<"End", 107>>, <<"Down", 108>>, <<"PageDown", 109>>, <<"Insert", 110>>,
    <<"Delete", 111>>, <<"KeypadEqual", 117>>, <<"KeypadPlusMinus", 118>>, <<"Pause", 119>>,
    <<"KeypadComma", 121>>, <<"LeftMeta", 125>>, <<"RightMeta", 126>>, <<"MouseLeft", 272>>,
    <<"MouseRight", 273>>, <<"MouseMiddle", 274>>, <<"MouseExtra1", 275>>,
    <<"MouseExtra2", 276>>, <<"MouseExtra3", 277>>, <<"MouseExtra4", 278>>,
    <<"MouseExtra5", 279>>, <<"PadSouth", 304>>, <<"PadEast", 305>>, <<"PadNorth", 307>>,
    <<"PadWest", 308>>, <<"ShoulderLeft", 310>>, <<"ShoulderRight", 311>>,
    <<"ShoulderLeftLower", 312>>, <<"ShoulderRightLower", 313>>, <<"Select", 314>>,
    <<"Start", 315>>, <<"HomeButton", 316>>, <<"StickLeft", 317>>, <<"StickRight", 318>>,
    <<"PadUp", 544>>, <<"PadDown", 545>>, <<"PadLeft", 546>>, <<"PadRight", 547>>,
    <<"ButtonMisc", 256>>, <<"TriggerHappy", 704>>
  >>

RelativeAxisList ==
  <<
    <<"X", 0>>, <<"Y", 1>>, <<"Z", 2>>, <<"RX", 3>>, <<"RY", 4>>, <<"RZ", 5>>, <<"Wheel", 8>>,
    <<"WheelHiRes", 11>>
  >>

AbsoluteAxisList ==
  <<
    <<"X", 0>>, <<"Y", 1>>, <<"Z", 2>>, <<"RX", 3>>, <<"RY", 4>>, <<"RZ", 5>>, <<"Hat0X", 16>>,
    <<"Hat0Y", 17>>, <<"Hat1X", 18>>, <<"Hat1Y", 19>>, <<"Hat2X", 20>>, <<"Hat2Y", 21>>,
    <<"Misc", 40>>
  >>

BusList ==
  <<
    <<"PCI", 1>>, <<"USB", 3>>, <<"HIL", 4>>, <<"Bluetooth", 5>>, <<"Virtual", 6>>,
    <<"ISA", 16>>, <<"Host", 25>>
  >>

ForceFeedbackList ==
  <<
    <<"Rumble", 80>>
  >>


Named(name) == [variant |-> name, inner |-> 0]
Other(n) == [variant |-> "Other", inner |-> n]

\* impl From< $inner_ty > for $name: the first arm whose value matches, else Other
EnumFrom(list, value) ==
  IF \E i \in 1..Len(list) : list[i][2] = value
  THEN LET first == CHOOSE i \in 1..Len(list) :
                      /\ list[i][2] = value
                      /\ \A j \in 1..(i - 1) : list[j][2] # value
       IN  Named(list[first][1])
  ELSE Other(value)

\* $name::raw and impl From< $name > for $inner_ty
EnumRaw(list, e) ==
  IF e.variant = "Other"
  THEN e.inner
  ELSE list[CHOOSE i \in 1..Len(list) : list[i][1] = e.variant][2]

\* the values of an enumeration's named variants
EnumValues(list) == {list[i][2] : i \in 1..Len(list)}

(***************************************************************************)
(* The raw event codec (input.rs).                                         *)
(*   RawInputEvent  [timestamp, kind, code, value]                         *)
(*   InputEvent     [timestamp, body]                                      *)
(*   InputEventBody [tag |-> "KeyPress", key], [tag |-> "KeyRelease", key],*)
(*                  [tag |-> "RelativeMove", axis, delta],                 *)
(*                  [tag |-> "AbsoluteMove", axis, position],              *)
(*                  [tag |-> "Flush"], [tag |-> "Dropped"],                *)
(*                  [tag |-> "Other", kind, code, value]                   *)
(***************************************************************************)
KeyPress(key) == [tag |-> "KeyPress", key |-> key]
KeyRelease(key) == [tag |-> "KeyRelease", key |-> key]
RelativeMove(axis, delta) == [tag |-> "RelativeMove", axis |-> axis, delta |-> delta]
AbsoluteMove(axis, position) ==
  [tag |-> "AbsoluteMove", axis |-> axis, position |-> position]
Flush == [tag |-> "Flush"]
Dropped == [tag |-> "Dropped"]
OtherBody(kind, code, value) ==
  [tag |-> "Other", kind |-> kind, code |-> code, value |-> value]

RawInputEvent(timestamp, kind, code, value) ==
  [timestamp |-> timestamp, kind |-> kind, code |-> code, value |-> value]
InputEvent(timestamp, body) == [timestamp |-> timestamp, body |-> body]

\* a decoder whose key-release arm forgets the guard on the value
InputEventFromRawUnguardedRelease(raw_event) ==
  LET kind == EnumFrom(EventKindList, raw_event.kind)
      body ==
        CASE kind = Named("Key") /\ raw_event.value = 1 ->
               KeyPress(EnumFrom(KeyList, raw_event.code))
          [] kind = Named("Key") ->
               KeyRelease(EnumFrom(KeyList, raw_event.code))
          [] kind = Named("RelativeAxis") ->
               RelativeMove(EnumFrom(RelativeAxisList, raw_event.code), raw_event.value)
          [] kind = Named("AbsoluteAxis") ->
               AbsoluteMove(EnumFrom(AbsoluteAxisList, raw_event.code), raw_event.value)
          [] kind = Named("Synchronization") /\ raw_event.code = 0 /\ raw_event.value = 0 ->
               Flush
          [] kind = Named("Synchronization") /\ raw_event.code = 3 /\ raw_event.value = 0 ->
               Dropped
          [] OTHER ->
               OtherBody(EnumFrom(EventKindList, raw_event.kind), raw_event.code,
                         raw_event.value)
  IN  InputEvent(raw_event.timestamp, body)

\* a decoder whose synchronization arms look at the code alone
InputEventFromRawSyncAnyValue(raw_event) ==
  LET kind == EnumFrom(EventKindList, raw_event.kind)
      body ==
        CASE kind = Named("Key") /\ raw_event.value = 1 ->
               KeyPress(EnumFrom(KeyList, raw_event.code))
          [] kind = Named("Key") /\ raw_event.value = 0 ->
               KeyRelease(EnumFrom(KeyList, raw_event.code))
          [] kind = Named("RelativeAxis") ->
               RelativeMove(EnumFrom(RelativeAxisList, raw_event.code), raw_event.value)
          [] kind = Named("AbsoluteAxis") ->
               AbsoluteMove(EnumFrom(AbsoluteAxisList, raw_event.code), raw_event.value)
          [] kind = Named("Synchronization") /\ raw_event.code = 0 ->
               Flush
          [] kind = Named("Synchronization") /\ raw_event.code = 3 ->
               Dropped
          [] OTHER ->
               OtherBody(EnumFrom(EventKindList, raw_event.kind), raw_event.code,
                         raw_event.value)
  IN  InputEvent(raw_event.timestamp, body)

\* impl From< RawInputEvent > for InputEvent: the arms in match order
InputEventFromRaw(raw_event) ==
  LET kind == EnumFrom(EventKindList, raw_event.kind)
      body ==
        IF kind = Named("Key") /\ raw_event.value = 1
        THEN KeyPress(EnumFrom(KeyList, raw_event.code))
        ELSE IF kind = Named("Key") /\ raw_event.value = 0
        THEN KeyRelease(EnumFrom(KeyList, raw_event.code))
        ELSE IF kind = Named("RelativeAxis")
        THEN RelativeMove(EnumFrom(RelativeAxisList, raw_event.code), raw_event.value)
        ELSE IF kind = Named("AbsoluteAxis")
        THEN AbsoluteMove(EnumFrom(AbsoluteAxisList, raw_event.code), raw_event.value)
        ELSE IF kind = Named("Synchronization") /\ raw_event.code = 0
                /\ raw_event.value = 0
        THEN Flush
        ELSE IF kind = Named("Synchronization") /\ raw_event.code = 3
                /\ raw_event.value = 0
        THEN Dropped
        ELSE OtherBody(EnumFrom(EventKindList, raw_event.kind), raw_event.code,
                       raw_event.value)
  IN  InputEvent(raw_event.timestamp, body)

\* the (kind, code, value) triple of a body, kind still an EventKind
BodyTriple(body) ==
  CASE body.tag = "KeyPress" -> <<Named("Key"), EnumRaw(KeyList, body.key), 1>>
    [] body.tag = "KeyRelease" -> <<Named("Key"), EnumRaw(KeyList, body.key), 0>>
    [] body.tag = "RelativeMove" ->
         <<Named("RelativeAxis"), EnumRaw(RelativeAxisList, body.axis), body.delta>>
    [] body.tag = "AbsoluteMove" ->
         <<Named("AbsoluteAxis"), EnumRaw(AbsoluteAxisList, body.axis), body.position>>
    [] body.tag = "Flush" -> <<Named("Synchronization"), 0, 0>>
    [] body.tag = "Dropped" -> <<Named("Synchronization"), 3, 0>>
    [] body.tag = "Other" -> <<body.kind, body.code, body.value>>

\* an encoder that writes Dropped with the code of Flush
RawFromInputEventDroppedAsFlush(event) ==
  LET t == IF event.body.tag = "Dropped"
           THEN <<Named("Synchronization"), 0, 0>>
           ELSE BodyTriple(event.body)
  IN  RawInputEvent(event.timestamp, EnumRaw(EventKindList, t[1]), t[2], t[3])

\* impl From< InputEvent > for RawInputEvent
RawFromInputEvent(event) ==
  LET t == BodyTriple(event.body)
  IN  RawInputEvent(event.timestamp, EnumRaw(EventKindList, t[1]), t[2], t[3])

(***************************************************************************)
(* SpecCodec: an input (a wire record or an event) is drawn and the two    *)
(* conversions are applied to it in turn, at most MaxConv times.           *)
(***************************************************************************)
MaxConv == 3

TimestampSamples == {[sec |-> 0, usec |-> 0], [sec |-> 12, usec |-> 999999]}
KindSamples == {0, 1, 2, 3, 4, 21, 23, 24, 257, U16Max}
CodeSamples == {0, 1, 2, 3, 8, 9, 11, 40, 41, 704, 705, U16Max}
ValueSamples == {I32Min, -1, 0, 1, 2, 3, I32Max}

\* every value of an enumeration over the sampled codes: the named variant a code
\* converts to, and Other(n) for every sampled n
EnumSamples(list, codes) ==
  {EnumFrom(list, c) : c \in codes} \cup {Other(c) : c \in codes}

RawSamples ==
  {RawInputEvent(t, k, c, v) :
     t \in TimestampSamples, k \in KindSamples, c \in CodeSamples, v \in ValueSamples}

BodySamples ==
  {KeyPress(k) : k \in EnumSamples(KeyList, CodeSamples)}
  \cup {KeyRelease(k) : k \in EnumSamples(KeyList, CodeSamples)}
  \cup {RelativeMove(a, v) :
          a \in EnumSamples(RelativeAxisList, CodeSamples), v \in ValueSamples}
  \cup {AbsoluteMove(a, v) :
          a \in EnumSamples(AbsoluteAxisList, CodeSamples), v \in ValueSamples}
  \cup {Flush, Dropped}
  \cup {OtherBody(k, c, v) :
          k \in EnumSamples(EventKindList, KindSamples), c \in CodeSamples,
          v \in ValueSamples}

EventSamples == {InputEvent(t, b) : t \in TimestampSamples, b \in BodySamples}

AsRaw(r) == [is |-> "raw", v |-> r]
AsEvent(e) == [is |-> "event", v |-> e]

InitCodec ==
  /\ \E x \in {AsRaw(r) : r \in RawSamples} \cup {AsEvent(e) : e \in EventSamples} :
       codec = [pc |-> "codec", trail |-> <<>>, cur |-> x]
  /\ iter = Idle /\ poll = Idle /\ effect = Idle /\ create = Idle /\ vdev = Idle /\ dev = Idle
  /\ time = Idle

\* let event: InputEvent = raw_event.into()
ToEvent ==
  /\ codec.cur.is = "raw"
  /\ Len(codec.trail) < MaxConv
  /\ codec' = [codec EXCEPT !.trail = Append(@, codec.cur),
                            !.cur = AsEvent(InputEventFromRaw(codec.cur.v))]
  /\ UNCHANGED <<iter, poll, effect, create, vdev, dev, time>>

\* let raw_event: RawInputEvent = event.into()
ToRaw ==
  /\ codec.cur.is = "event"
  /\ Len(codec.trail) < MaxConv
  /\ codec' = [codec EXCEPT !.trail = Append(@, codec.cur),
                            !.cur = AsRaw(RawFromInputEvent(codec.cur.v))]
  /\ UNCHANGED <<iter, poll, effect, create, vdev, dev, time>>

NextCodec == ToEvent \/ ToRaw

SpecCodec == InitCodec /\ [][NextCodec]_vars

\* the input followed by every value a conversion produced
CodecRun == Append(codec.trail, codec.cur)

\* an enum value is canonical when it is not Other(n) for the value n of a named
\* variant
Canonical(list, e) == e.variant = "Other" => e.inner \notin EnumValues(list)

CanonicalBody(body) ==
  CASE body.tag \in {"KeyPress", "KeyRelease"} -> Canonical(KeyList, body.key)
    [] body.tag = "RelativeMove" -> Canonical(RelativeAxisList, body.axis)
    [] body.tag = "AbsoluteMove" -> Canonical(AbsoluteAxisList, body.axis)
    [] OTHER -> TRUE

\* C2 as stated: every body other than Other, with any code value (Other(n) for
\* any n included), is the same after encoding and decoding, and so is the
\* timestamp.
C2_RoundTripAnyCode ==
  \A i \in 1..Len(CodecRun) :
    (/\ i + 2 <= Len(CodecRun)
     /\ CodecRun[i].is = "event"
     /\ CodecRun[i].v.body.tag # "Other")
    => CodecRun[i + 2] = CodecRun[i]

\* C2 amended: every body other than Other whose key or axis code is a named
\* variant, or Other(n) for an n that is not the value of a named variant, is
\* the same after encoding and decoding, and so is the timestamp.
C2_RoundTripCanonical ==
  \A i \in 1..Len(CodecRun) :
    (/\ i + 2 <= Len(CodecRun)
     /\ CodecRun[i].is = "event"
     /\ CodecRun[i].v.body.tag # "Other"
     /\ CanonicalBody(CodecRun[i].v.body))
    => /\ CodecRun[i + 2].is = "event"
       /\ CodecRun[i + 2].v.body = CodecRun[i].v.body
       /\ CodecRun[i + 2].v.timestamp = CodecRun[i].v.timestamp

C2_Witness ==
  /\ codec.pc = "codec"
  /\ Len(CodecRun) >= 3
  /\ CodecRun[1].is = "event"
  /\ CodecRun[1].v.body.tag = "KeyPress"
  /\ CodecRun[1].v.body.key = Other(705)
  /\ CodecRun[1].v.timestamp.sec # 0
  /\ CodecRun[3] = CodecRun[1]

\* C3: a wire record decoded and encoded again has the same timestamp, kind,
\* code and value.
C3_RawRoundTrip ==
  \A i \in 1..Len(CodecRun) :
    (i + 2 <= Len(CodecRun) /\ CodecRun[i].is = "raw")
    => /\ CodecRun[i + 2].is = "raw"
       /\ CodecRun[i + 2].v.timestamp = CodecRun[i].v.timestamp
       /\ CodecRun[i + 2].v.kind = CodecRun[i].v.kind
       /\ CodecRun[i + 2].v.code = CodecRun[i].v.code
       /\ CodecRun[i + 2].v.value = CodecRun[i].v.value

C3_Witness ==
  /\ codec.pc = "codec"
  /\ Len(CodecRun) >= 3
  /\ CodecRun[1].is = "raw"
  /\ CodecRun[1].v.kind = 257
  /\ CodecRun[1].v.value = I32Min
  /\ CodecRun[2].v.body.tag = "Other"
  /\ CodecRun[3] = CodecRun[1]

EV_SYN == 0
EV_KEY == 1
EV_REL == 2
EV_ABS == 3
SYN_REPORT == 0
SYN_DROPPED == 3

\* the rule table of the decoder, on the numbers of the wire record
DecodeRule(raw, body) ==
  LET verbatim == /\ body.tag = "Other"
                  /\ EnumRaw(EventKindList, body.kind) = raw.kind
                  /\ body.code = raw.code
                  /\ body.value = raw.value
  IN  IF raw.kind = EV_KEY
      THEN IF raw.value = 1
           THEN body.tag = "KeyPress" /\ EnumRaw(KeyList, body.key) = raw.code
           ELSE IF raw.value = 0
           THEN body.tag = "KeyRelease" /\ EnumRaw(KeyList, body.key) = raw.code
           ELSE verbatim /\ body.kind = Named("Key")
      ELSE IF raw.kind = EV_REL
      THEN /\ body.tag = "RelativeMove"
           /\ EnumRaw(RelativeAxisList, body.axis) = raw.code
           /\ body.delta = raw.value
      ELSE IF raw.kind = EV_ABS
      THEN /\ body.tag = "AbsoluteMove"
           /\ EnumRaw(AbsoluteAxisList, body.axis) = raw.code
           /\ body.position = raw.value
      ELSE IF raw.kind = EV_SYN /\ raw.code = SYN_REPORT /\ raw.value = 0
      THEN body.tag = "Flush"
      ELSE IF raw.kind = EV_SYN /\ raw.code = SYN_DROPPED /\ raw.value = 0
      THEN body.tag = "Dropped"
      ELSE verbatim

\* C4: decoding follows the rule table for every (kind, code, value).
C4_DecodeTable ==
  \A i \in 1..Len(CodecRun) :
    (i + 1 <= Len(CodecRun) /\ CodecRun[i].is = "raw")
    => /\ CodecRun[i + 1].is = "event"
       /\ DecodeRule(CodecRun[i].v, CodecRun[i + 1].v.body)

C4_Witness ==
  /\ codec.pc = "codec"
  /\ Len(CodecRun) >= 2
  /\ CodecRun[1].is = "raw"
  /\ CodecRun[1].v.kind = EV_KEY
  /\ CodecRun[1].v.value = 2
  /\ CodecRun[2].v.body = OtherBody(Named("Key"), CodecRun[1].v.code, 2)

(***************************************************************************)
(* EventBitsIter (event_bits_iter.rs).  The buffer is a sequence of bytes; *)
(* index is the 0-based index of the code, so the byte at index is         *)
(* buffer[index + 1].                                                      *)
(***************************************************************************)
MaxBufLen == 3
MaxNoneCalls == 3

ByteSamples == {0, 1, 128, 129, 255}

RECURSIVE SeqsUpTo(_, _)
SeqsUpTo(S, n) ==
  IF n = 0
  THEN {<<>>}
  ELSE LET shorter == SeqsUpTo(S, n - 1)
       IN  shorter \cup {Append(q, x) : q \in {r \in shorter : Len(r) = n - 1}, x \in S}

BufferSamples == {<<b>> : b \in 0..255} \cup SeqsUpTo(ByteSamples, MaxBufLen)

None == [some |-> FALSE, v |-> 0]
Some(x) == [some |-> TRUE, v |-> x]

\* self.buffer[ self.index ]: a bounds-checked read
ReadByte(buffer, index) ==
  IF index < Len(buffer) THEN [ok |-> TRUE, byte |-> buffer[index + 1]]
                         ELSE [ok |-> FALSE, byte |-> 0]

\* EventBitsIter::new
IterNew(buffer) ==
  [pc |-> "iter", buffer |-> buffer, index |-> 0, bit |-> 0,
   byte |-> IF Len(buffer) > 0 THEN buffer[1] ELSE 0,
   returned |-> <<>>, panicked |-> FALSE]

\* the first loop with the end test on index instead of index + 1
RECURSIVE SkipZeroLateEnd(_, _, _, _)
SkipZeroLateEnd(buffer, index, byte, bit) ==
  IF byte # 0
  THEN [at |-> "bit", index |-> index, byte |-> byte, bit |-> bit]
  ELSE IF index >= Len(buffer)
  THEN [at |-> "none", index |-> index, byte |-> byte, bit |-> bit]
  ELSE LET r == ReadByte(buffer, index + 1)
       IN  IF r.ok
           THEN SkipZeroLateEnd(buffer, index + 1, r.byte, 0)
           ELSE [at |-> "panic", index |-> index + 1, byte |-> byte, bit |-> bit]

\* the first loop without the reset of bit for a new byte
RECURSIVE SkipZeroKeepBit(_, _, _, _)
SkipZeroKeepBit(buffer, index, byte, bit) ==
  IF byte # 0
  THEN [at |-> "bit", index |-> index, byte |-> byte, bit |-> bit]
  ELSE IF index + 1 >= Len(buffer)
  THEN [at |-> "none", index |-> index, byte |-> byte, bit |-> bit]
  ELSE LET r == ReadByte(buffer, index + 1)
       IN  IF r.ok
           THEN SkipZeroKeepBit(buffer, index + 1, r.byte, bit)
           ELSE [at |-> "panic", index |-> index + 1, byte |-> byte, bit |-> bit]

\* while self.byte == 0 { ... }: advance to the next non-zero byte, or stop at the
\* end of the buffer
RECURSIVE SkipZero(_, _, _, _)
SkipZero(buffer, index, byte, bit) ==
  IF byte # 0
  THEN [at |-> "bit", index |-> index, byte |-> byte, bit |-> bit]
  ELSE IF index + 1 >= Len(buffer)
  THEN [at |-> "none", index |-> index, byte |-> byte, bit |-> bit]
  ELSE LET r == ReadByte(buffer, index + 1)
       IN  IF r.ok
           THEN SkipZero(buffer, index + 1, r.byte, 0)
           ELSE [at |-> "panic", index |-> index + 1, byte |-> byte, bit |-> bit]

\* while self.byte & 1 == 0 { self.byte >>= 1; self.bit += 1; }  (byte is not 0)
RECURSIVE StripLow(_, _)
StripLow(byte, bit) ==
  IF byte % 2 = 0 THEN StripLow(byte \div 2, bit + 1)
                  ELSE [byte |-> byte, bit |-> bit]

\* EventBitsIter::next on the iterator it: the fields after the call and the
\* value returned
IterNextCall(it) ==
  LET z == SkipZero(it.buffer, it.index, it.byte, it.bit)
  IN  IF z.at = "panic"
      THEN [it EXCEPT !.index = z.index, !.panicked = TRUE]
      ELSE IF z.at = "none"
      THEN [it EXCEPT !.index = z.index, !.byte = z.byte, !.bit = z.bit,
                      !.returned = Append(@, None)]
      ELSE LET l == StripLow(z.byte, z.bit)
               output == z.index * 8 + l.bit
           IN  [it EXCEPT !.index = z.index, !.byte = l.byte \div 2,
                          !.bit = l.bit + 1,
                          !.returned = Append(@, Some(output % (U16Max + 1)))]

NoneCount(returned) == Cardinality({i \in 1..Len(returned) : ~returned[i].some})

InitBits ==
  /\ \E buffer \in BufferSamples : iter = IterNew(buffer)
  /\ codec = Idle /\ poll = Idle /\ effect = Idle /\ create = Idle /\ vdev = Idle /\ dev = Idle
  /\ time = Idle

\* one call of next(); the caller goes on calling after None has been returned
IterNext ==
  /\ ~iter.panicked
  /\ NoneCount(iter.returned) < MaxNoneCalls
  /\ iter' = IterNextCall(iter)
  /\ UNCHANGED <<codec, poll, effect, create, vdev, dev, time>>

NextBits == IterNext

SpecBits == InitBits /\ [][NextBits]_vars

\* the positions of the set bits of a buffer
SetBits(buffer) ==
  {p \in 0..(8 * Len(buffer) - 1) :
     (buffer[(p \div 8) + 1] \div (2 ^ (p % 8))) % 2 = 1}

RECURSIVE Ascending(_)
Ascending(S) ==
  IF S = {} THEN <<>>
  ELSE LET m == CHOOSE x \in S : \A y \in S : x <= y
       IN  <<m>> \o Ascending(S \ {m})

\* the values returned before the first None
Yielded(returned) ==
  LET firstNone == IF \E i \in 1..Len(returned) : ~returned[i].some
                   THEN CHOOSE i \in 1..Len(returned) :
                          ~returned[i].some /\ \A j \in 1..(i - 1) : returned[j].some
                   ELSE Len(returned) + 1
  IN  [i \in 1..(firstNone - 1) |-> returned[i].v]

\* C5: the values next() yields are the positions of the set bits, each once, in
\* strictly ascending order: at every moment a prefix of them, and all of them
\* once None has been returned.
C5_YieldsSetBits ==
  iter.pc = "iter" =>
    LET want == Ascending(SetBits(iter.buffer))
        got == Yielded(iter.returned)
    IN  /\ ~iter.panicked
        /\ Len(got) <= Len(want)
        /\ \A i \in 1..Len(got) : got[i] = want[i]
        /\ \A i \in 1..Len(got) : \A j \in 1..Len(got) : i < j => got[i] < got[j]
        /\ NoneCount(iter.returned) > 0 => got = want

C5_Witness ==
  /\ iter.pc = "iter"
  /\ iter.buffer = <<0, 129, 0>>
  /\ iter.returned = <<Some(8), Some(15), None>>

\* C6: once next() has returned None every later call returns None, and no call
\* reads past the end of the buffer.
C6_Fused ==
  iter.pc = "iter" =>
    /\ ~iter.panicked
    /\ iter.index < Max(Len(iter.buffer), 1)
    /\ \A i \in 1..Len(iter.returned) : \A j \in 1..Len(iter.returned) :
         (i < j /\ ~iter.returned[i].some) => ~iter.returned[j].some

C6_Witness ==
  /\ iter.pc = "iter"
  /\ Len(iter.buffer) = MaxBufLen
  /\ iter.buffer[1] = 129
  /\ iter.buffer[Len(iter.buffer)] = 0
  /\ Len(iter.returned) >= 2 + MaxNoneCalls
  /\ NoneCount(iter.returned) = MaxNoneCalls

(***************************************************************************)
(* poll_read (input.rs).  The kernel's ppoll is the environment: it        *)
(* returns -1 with an errno, 0 on a timeout, or the number of ready        *)
(* handles with the revents bits of the one handle polled.                 *)
(***************************************************************************)
MaxPolls == 2

POLLIN == 1
POLLERR == 8
POLLHUP == 16
POLLNVAL == 32
EINTR == 4
EBADF == 9
EFAULT == 14
EINVAL == 22

ErrnoSamples == {EINTR, EBADF, EFAULT, EINVAL}
ReventsBits == {POLLIN, POLLERR, POLLHUP, POLLNVAL}

RECURSIVE SumOf(_)
SumOf(S) == IF S = {} THEN 0 ELSE LET x == CHOOSE y \in S : TRUE IN x + SumOf(S \ {x})

RECURSIVE BitAnd(_, _)
BitAnd(a, b) ==
  IF a = 0 \/ b = 0 THEN 0
  ELSE (a % 2) * (b % 2) + 2 * BitAnd(a \div 2, b \div 2)

\* what ppoll can answer for one handle
PpollOutcomes ==
  {[result |-> -1, errno |-> e, revents |-> 0] : e \in ErrnoSamples}
  \cup {[result |-> 0, errno |-> 0, revents |-> 0]}
  \cup {[result |-> 1, errno |-> 0, revents |-> SumOf(bits)] :
          bits \in (SUBSET ReventsBits) \ {{}}}

\* Option< Duration > as [some, secs, nanos]
TimeoutSamples ==
  {[some |-> FALSE, secs |-> 0, nanos |-> 0], [some |-> TRUE, secs |-> 0, nanos |-> 0],
   [some |-> TRUE, secs |-> 1, nanos |-> 500000000]}

\* timeout.map( |timeout| libc::timespec { .. } ), a null pointer for None
Timespec(timeout) ==
  IF timeout.some THEN [null |-> FALSE, tv_sec |-> timeout.secs, tv_nsec |-> timeout.nanos]
                  ELSE [null |-> TRUE, tv_sec |-> 0, tv_nsec |-> 0]

\* io::Error::kind of an OS error, as far as poll_read looks at it
ErrorKind(errno) == IF errno = EINTR THEN "Interrupted" ELSE "Other"

Ok(x) == [ok |-> TRUE, v |-> x, errno |-> 0]
Err(errno) == [ok |-> FALSE, v |-> FALSE, errno |-> errno]

\* poll_read without the test for an interrupted wait
PollReadNoInterruptTest(outcome) ==
  IF outcome.result < 0
  THEN Err(outcome.errno)
  ELSE IF outcome.result = 0
  THEN Ok(FALSE)
  ELSE Ok(BitAnd(outcome.revents, POLLIN + POLLHUP) # 0)

\* poll_read, from the answer of ppoll on
PollRead(outcome) ==
  IF outcome.result < 0
  THEN IF ErrorKind(outcome.errno) = "Interrupted" THEN Ok(FALSE) ELSE Err(outcome.errno)
  ELSE IF outcome.result = 0
  THEN Ok(FALSE)
  ELSE Ok(BitAnd(outcome.revents, POLLIN + POLLHUP) # 0)

InitPoll ==
  /\ poll = [pc |-> "poll", calls |-> <<>>]
  /\ codec = Idle /\ iter = Idle /\ effect = Idle /\ create = Idle /\ vdev = Idle /\ dev = Idle
  /\ time = Idle

\* one call of poll_read( fd, timeout )
PollReadCall ==
  /\ Len(poll.calls) < MaxPolls
  /\ \E timeout \in TimeoutSamples, outcome \in PpollOutcomes :
       poll' = [poll EXCEPT !.calls =
                  Append(@, [timespec |-> Timespec(timeout), outcome |-> outcome,
                             ret |-> PollRead(outcome)])]
  /\ UNCHANGED <<codec, iter, effect, create, vdev, dev, time>>

NextPoll == PollReadCall

SpecPoll == InitPoll /\ [][NextPoll]_vars

HasBit(mask, bit) == (mask \div bit) % 2 = 1

Interrupted(call) == call.outcome.result < 0 /\ call.outcome.errno = EINTR

\* what one call returns, given the answer of the wait
PollRule(call) ==
  /\ Interrupted(call) => call.ret = Ok(FALSE)
  /\ (call.outcome.result < 0 /\ call.outcome.errno # EINTR)
       => call.ret = Err(call.outcome.errno)
  /\ call.outcome.result = 0 => call.ret = Ok(FALSE)
  /\ call.ret = Ok(TRUE)
       => /\ call.outcome.result > 0
          /\ HasBit(call.outcome.revents, POLLIN) \/ HasBit(call.outcome.revents, POLLHUP)
  /\ (/\ call.outcome.result > 0
      /\ HasBit(call.outcome.revents, POLLIN) \/ HasBit(call.outcome.revents, POLLHUP))
       => call.ret = Ok(TRUE)

\* C7: an interrupted wait returns Ok(false), never an error and never ready, and
\* the call after it (like every call) is judged on its own wait alone; any other
\* failure is an
\* Err, a timeout is Ok(false), and Ok(true) is returned only for readable data
\* or hang-up.
C7_PollRead ==
  poll.pc = "poll" =>
    \A i \in 1..Len(poll.calls) : PollRule(poll.calls[i])

C7_Witness ==
  /\ poll.pc = "poll"
  /\ Len(poll.calls) = 2
  /\ Interrupted(poll.calls[1])
  /\ poll.calls[1].ret = Ok(FALSE)
  /\ poll.calls[2].outcome.revents = POLLHUP
  /\ poll.calls[2].ret = Ok(TRUE)

(***************************************************************************)
(* The force-feedback effect codec (input.rs).                             *)
(*   std::time::Duration     [secs, nanos], nanos below 10^9                *)
(*   ForceFeedbackDuration   [finite |-> TRUE, d |-> Duration] or Infinite  *)
(*   ForceFeedbackEffect     [id, direction, kind, duration, delay, trigger]*)
(*   RawForceFeedbackEffect  [kind, id, direction, trigger, replay, body]   *)
(***************************************************************************)
FF_RUMBLE == 80
FF_PERIODIC == 81
ClipMillis == 32767
MillisPerSec == 1000
NanosPerMilli == 1000000

Duration(secs, nanos) == [secs |-> secs, nanos |-> nanos]
Finite(d) == [finite |-> TRUE, d |-> d]
Infinite == [finite |-> FALSE, d |-> Duration(0, 0)]
Rumble(strong, weak) ==
  [tag |-> "Rumble", strong_magnitude |-> strong, weak_magnitude |-> weak]

\* Duration::as_millis
AsMillis(duration) == duration.secs * MillisPerSec + duration.nanos \div NanosPerMilli

\* Duration::from_millis
FromMillis(ms) ==
  Duration(ms \div MillisPerSec, (ms % MillisPerSec) * NanosPerMilli)

\* the narrowing to 16 bits without the clip before it
ConvertNoClip(duration) == AsMillis(duration) % (U16Max + 1)

\* convert_and_clip
ConvertAndClip(duration) ==
  LET millis == AsMillis(duration)
  IN  IF millis > ClipMillis THEN ClipMillis ELSE millis % (U16Max + 1)

\* ForceFeedbackEffectKind::from_raw: only the rumble family is decoded
EffectKindFromRaw(kind, body) ==
  IF kind = FF_RUMBLE
  THEN [ok |-> TRUE,
        kind |-> Rumble(body.rumble.strong_magnitude, body.rumble.weak_magnitude)]
  ELSE [ok |-> FALSE, kind |-> Rumble(0, 0)]

Unimplemented == [is |-> "panic"]

\* a decoder without the arm for a zero length
EffectFromRawNoZeroArm(raw_effect) ==
  LET k == EffectKindFromRaw(raw_effect.kind, raw_effect.body)
  IN  IF ~k.ok
      THEN Unimplemented
      ELSE [is |-> "effect",
            e |-> [id |-> raw_effect.id,
                   direction |-> raw_effect.direction,
                   kind |-> k.kind,
                   trigger |-> raw_effect.trigger,
                   duration |-> Finite(FromMillis(raw_effect.replay.length)),
                   delay |-> FromMillis(raw_effect.replay.delay)]]

\* ForceFeedbackEffect::from_raw
EffectFromRaw(raw_effect) ==
  LET k == EffectKindFromRaw(raw_effect.kind, raw_effect.body)
  IN  IF ~k.ok
      THEN Unimplemented
      ELSE [is |-> "effect",
            e |-> [id |-> raw_effect.id,
                   direction |-> raw_effect.direction,
                   kind |-> k.kind,
                   trigger |-> raw_effect.trigger,
                   duration |-> IF raw_effect.replay.length = 0
                                THEN Infinite
                                ELSE Finite(FromMillis(raw_effect.replay.length)),
                   delay |-> FromMillis(raw_effect.replay.delay)]]

\* impl From< ForceFeedbackEffect > for RawForceFeedbackEffect
RawFromEffect(e) ==
  [is |-> "raw",
   r |-> [id |-> e.id,
          direction |-> e.direction,
          trigger |-> e.trigger,
          replay |-> [length |-> IF e.duration.finite
                                 THEN ConvertAndClip(e.duration.d)
                                 ELSE 0,
                      delay |-> ConvertAndClip(e.delay)],
          body |-> [rumble |-> [strong_magnitude |-> e.kind.strong_magnitude,
                                weak_magnitude |-> e.kind.weak_magnitude]],
          kind |-> FF_RUMBLE]]

(***************************************************************************)
(* SpecEffect: an effect or a raw effect is drawn and the two conversions  *)
(* are applied in turn, at most MaxConv times.                             *)
(***************************************************************************)
SecsSamples == {0, 32, 65, 131, 2147482}
NanosSamples ==
  {0, 999999, 1000000, 71000000, 72000000, 535000000, 536000000, 767000000,
   767999999, 768000000, 999999999}
DurationSamples == {Duration(sec, n) : sec \in SecsSamples, n \in NanosSamples}
DelaySamples ==
  {Duration(0, 0), Duration(0, 1000000), Duration(32, 767000000),
   Duration(32, 768000000), Duration(65, 536000000), Duration(2147482, 999999999)}
ReplaySamples == {0, 1, 999, 1000, ClipMillis, ClipMillis + 1, U16Max}
TriggerSamples == {[button |-> 0, interval |-> 0], [button |-> 304, interval |-> 20]}

EffectSamples ==
  {[id |-> -1, direction |-> 16384, kind |-> Rumble(U16Max, 0), duration |-> dur,
    delay |-> del, trigger |-> t] :
     dur \in {Finite(d) : d \in DurationSamples} \cup {Infinite},
     del \in DelaySamples, t \in TriggerSamples}

RawEffectSamples ==
  {[kind |-> k, id |-> 3, direction |-> 0, trigger |-> t,
    replay |-> [length |-> l, delay |-> d],
    body |-> [rumble |-> [strong_magnitude |-> 1, weak_magnitude |-> U16Max]]] :
     k \in {FF_RUMBLE, FF_PERIODIC}, t \in TriggerSamples, l \in ReplaySamples,
     d \in ReplaySamples}

InitEffect ==
  /\ \E x \in {[is |-> "effect", e |-> e] : e \in EffectSamples}
              \cup {[is |-> "raw", r |-> r] : r \in RawEffectSamples} :
       effect = [pc |-> "effect", trail |-> <<>>, cur |-> x]
  /\ codec = Idle /\ iter = Idle /\ poll = Idle /\ create = Idle /\ vdev = Idle /\ dev = Idle
  /\ time = Idle

\* let raw: RawForceFeedbackEffect = effect.into()
EncodeEffect ==
  /\ effect.cur.is = "effect"
  /\ Len(effect.trail) < MaxConv
  /\ effect' = [effect EXCEPT !.trail = Append(@, effect.cur),
                              !.cur = RawFromEffect(effect.cur.e)]
  /\ UNCHANGED <<codec, iter, poll, create, vdev, dev, time>>

\* ForceFeedbackEffect::from_raw( &raw ); an unsupported kind panics
DecodeEffect ==
  /\ effect.cur.is = "raw"
  /\ Len(effect.trail) < MaxConv
  /\ effect' = [effect EXCEPT !.trail = Append(@, effect.cur),
                              !.cur = EffectFromRaw(effect.cur.r)]
  /\ UNCHANGED <<codec, iter, poll, create, vdev, dev, time>>

NextEffect == EncodeEffect \/ DecodeEffect

SpecEffect == InitEffect /\ [][NextEffect]_vars

EffectRun == Append(effect.trail, effect.cur)

\* the whole-millisecond count of a duration exceeds 32767 (32 s 767 ms)
ExceedsClip(d) == d.secs > 32 \/ (d.secs = 32 /\ d.nanos >= 768000000)

\* C9: every finite duration and every delay of more than 32767 whole
\* milliseconds is encoded as exactly 32767, and no encoded length or delay is
\* above 32767.
C9_Clamp ==
  \A i \in 1..Len(EffectRun) :
    (i + 1 <= Len(EffectRun) /\ EffectRun[i].is = "effect")
    => LET e == EffectRun[i].e
           replay == EffectRun[i + 1].r.replay
       IN  /\ EffectRun[i + 1].is = "raw"
           /\ replay.length \in 0..ClipMillis
           /\ replay.delay \in 0..ClipMillis
           /\ (e.duration.finite /\ ExceedsClip(e.duration.d))
                => replay.length = ClipMillis
           /\ ExceedsClip(e.delay) => replay.delay = ClipMillis

C9_Witness ==
  /\ effect.pc = "effect"
  /\ Len(EffectRun) >= 2
  /\ EffectRun[1].is = "effect"
  /\ EffectRun[1].e.duration = Finite(Duration(65, 536000000))
  /\ EffectRun[1].e.delay = Duration(32, 768000000)
  /\ EffectRun[2].r.replay = [length |-> ClipMillis, delay |-> ClipMillis]

\* C10: duration Infinite encodes to replay length 0, and a raw effect of replay
\* length 0 that is decoded (its kind is the rumble family) has duration Infinite.
C10_InfiniteIsZero ==
  \A i \in 1..Len(EffectRun) :
    /\ (/\ i + 1 <= Len(EffectRun)
        /\ EffectRun[i].is = "effect"
        /\ ~EffectRun[i].e.duration.finite)
       => EffectRun[i + 1].r.replay.length = 0
    /\ (/\ i + 1 <= Len(EffectRun)
        /\ EffectRun[i].is = "raw"
        /\ EffectRun[i].r.replay.length = 0
        /\ EffectRun[i + 1].is = "effect")
       => EffectRun[i + 1].e.duration = Infinite

C10_Witness ==
  /\ effect.pc = "effect"
  /\ Len(EffectRun) >= 3
  /\ EffectRun[1].is = "effect"
  /\ EffectRun[1].e.duration = Infinite
  /\ EffectRun[2].is = "raw"
  /\ EffectRun[2].r.replay.length = 0
  /\ EffectRun[3].is = "effect"
  /\ EffectRun[3].e.duration = Infinite

\* a duration of a whole number of milliseconds from 0 to 32767
WholeMillis(d) ==
  /\ d.nanos % NanosPerMilli = 0
  /\ AsMillis(d) \in 0..ClipMillis

\* C11: an effect whose duration is Finite(d), d a whole number of milliseconds
\* from 0 to 32767 (zero included), encoded to the raw effect and decoded back
\* has duration Finite(d).
C11_FiniteRoundTrip ==
  \A i \in 1..Len(EffectRun) :
    (/\ i + 2 <= Len(EffectRun)
     /\ EffectRun[i].is = "effect"
     /\ EffectRun[i].e.duration.finite
     /\ WholeMillis(EffectRun[i].e.duration.d))
    => /\ EffectRun[i + 2].is = "effect"
       /\ EffectRun[i + 2].e.duration = EffectRun[i].e.duration

(***************************************************************************)
(* VirtualDevice::create (uinput.rs).  The kernel is the environment: the  *)
(* call number failAt (0 for none) of a run fails with errno.  A kernel    *)
(* call is logged as [call, arg, ok].                                      *)
(*   EventBit [tag |-> "Key", code], [tag |-> "RelativeAxis", code],       *)
(*            [tag |-> "AbsoluteAxis", descriptor],                        *)
(*            [tag |-> "ForceFeedback", code]                              *)
(***************************************************************************)
MaxNameLen == 81
MaxBits == 2
NameLimit == 80
NameFieldLen == 80

KeyBit(key) == [tag |-> "Key", code |-> key]
RelativeAxisBit(axis) == [tag |-> "RelativeAxis", code |-> axis]
AbsoluteAxisBit(axis, initial_value, minimum, maximum, noise_threshold, deadzone, resolution) ==
  [tag |-> "AbsoluteAxis",
   descriptor |-> [axis |-> axis, initial_value |-> initial_value,
                   minimum |-> minimum, maximum |-> maximum,
                   noise_threshold |-> noise_threshold, deadzone |-> deadzone,
                   resolution |-> resolution]]
ForceFeedbackBit(bit) == [tag |-> "ForceFeedback", code |-> bit]

\* impl From< DeviceId > for RawDeviceId
RawDeviceId(id) ==
  [bus |-> EnumRaw(BusList, id.bus), vendor |-> id.vendor, product |-> id.product,
   version |-> id.version]

\* i32 arithmetic.  A build with overflow checks panics on overflow, a build
\* without them wraps; the operators never form a number outside 32 bits.
SubOverflows(a, b) ==
  \/ b < 0 /\ a > I32Max + b
  \/ b > 0 /\ a < I32Min + b
WrappingSub(a, b) ==
  IF b < 0 /\ a > I32Max + b THEN ((a - I32Max) - (b + I32Max)) - 2
  ELSE IF b > 0 /\ a < I32Min + b THEN ((a + I32Max) - (b - I32Max)) + 2
  ELSE a - b
AddOverflows(a, b) ==
  \/ a > 0 /\ b > 0 /\ a > I32Max - b
  \/ a < 0 /\ b < 0 /\ a < I32Min - b
WrappingAdd(a, b) ==
  IF a > 0 /\ b > 0 /\ a > I32Max - b THEN ((a - I32Max) + (b - I32Max)) - 2
  ELSE IF a < 0 /\ b < 0 /\ a < I32Min - b THEN ((a + I32Max) + (b + I32Max)) + 2
  ELSE a + b

\* i32 division by 2, rounding toward zero
Half(x) ==
  IF x >= 0 THEN x \div 2
  ELSE IF x = I32Min THEN -(I32Max \div 2) - 1
  ELSE -((-x) \div 2)

\* (descriptor.maximum - descriptor.minimum) / 2 + descriptor.minimum
InitialAbsValue(d, overflow_checks) ==
  LET half == Half(WrappingSub(d.maximum, d.minimum))
  IN  IF overflow_checks
         /\ (SubOverflows(d.maximum, d.minimum) \/ AddOverflows(half, d.minimum))
      THEN [ok |-> FALSE, value |-> 0]
      ELSE [ok |-> TRUE, value |-> WrappingAdd(half, d.minimum)]

\* one kernel call appended to the log; it fails when its number is failAt
Ioctl(acc, call, arg, failAt) ==
  [acc EXCEPT !.calls =
     Append(@, [call |-> call, arg |-> arg, ok |-> Len(acc.calls) + 1 # failAt])]

LastOk(acc) == acc.calls[Len(acc.calls)].ok

\* .unwrap() of the result of the last call
Unwrap(acc) == IF LastOk(acc) THEN acc ELSE [acc EXCEPT !.end = "panic"]

\* the arm without the assertion: inverted bounds are sent to the kernel
DeclareAbsoluteAxisNoAssert(acc, d, failAt, overflow_checks) ==
  LET a1 == Unwrap(Ioctl([acc EXCEPT !.has_event_absolute_axis = TRUE],
                         "device_set_absolute_axis_bit",
                         EnumRaw(AbsoluteAxisList, d.axis), failAt))
      value == InitialAbsValue(d, overflow_checks)
      abs_setup == [axis |-> EnumRaw(AbsoluteAxisList, d.axis),
                    info |-> [value |-> value.value,
                              minimum |-> d.minimum,
                              maximum |-> d.maximum,
                              noise_threshold |-> d.noise_threshold,
                              deadzone |-> d.deadzone,
                              resolution |-> d.resolution]]
  IN  IF a1.end # "running"
      THEN a1
      ELSE IF ~value.ok
      THEN [a1 EXCEPT !.end = "panic"]
      ELSE Unwrap(Ioctl(a1, "abs_setup", abs_setup, failAt))

\* the arm of the match for a EventBit::AbsoluteAxis
DeclareAbsoluteAxis(acc, d, failAt, overflow_checks) ==
  LET a1 == Unwrap(Ioctl([acc EXCEPT !.has_event_absolute_axis = TRUE],
                         "device_set_absolute_axis_bit",
                         EnumRaw(AbsoluteAxisList, d.axis), failAt))
      value == InitialAbsValue(d, overflow_checks)
      abs_setup == [axis |-> EnumRaw(AbsoluteAxisList, d.axis),
                    info |-> [value |-> value.value,
                              minimum |-> d.minimum,
                              maximum |-> d.maximum,
                              noise_threshold |-> d.noise_threshold,
                              deadzone |-> d.deadzone,
                              resolution |-> d.resolution]]
  IN  IF a1.end # "running"
      THEN a1
      ELSE IF ~(d.maximum >= d.minimum)
      THEN [a1 EXCEPT !.end = "panic"]
      ELSE IF ~value.ok
      THEN [a1 EXCEPT !.end = "panic"]
      ELSE Unwrap(Ioctl(a1, "abs_setup", abs_setup, failAt))

\* the body of the loop over event_bits, for one element
DeclareBit(acc, bit, failAt, overflow_checks) ==
  CASE bit.tag = "Key" ->
         Unwrap(Ioctl([acc EXCEPT !.has_event_key = TRUE], "device_set_key_bit",
                      EnumRaw(KeyList, bit.code), failAt))
    [] bit.tag = "RelativeAxis" ->
         Unwrap(Ioctl([acc EXCEPT !.has_event_relative_axis = TRUE],
                      "device_set_relative_axis_bit",
                      EnumRaw(RelativeAxisList, bit.code), failAt))
    [] bit.tag = "AbsoluteAxis" ->
         DeclareAbsoluteAxis(acc, bit.descriptor, failAt, overflow_checks)
    [] bit.tag = "ForceFeedback" ->
         Unwrap(Ioctl([acc EXCEPT !.has_event_force_feedback = TRUE],
                      "device_set_force_feedback_bit",
                      EnumRaw(ForceFeedbackList, bit.code), failAt))

\* for event_bit in event_bits { ... }; a panic ends the loop
RECURSIVE DeclareBits(_, _, _, _)
DeclareBits(acc, event_bits, failAt, overflow_checks) ==
  IF event_bits = <<>> \/ acc.end # "running"
  THEN acc
  ELSE DeclareBits(DeclareBit(acc, Head(event_bits), failAt, overflow_checks),
                   Tail(event_bits), failAt, overflow_checks)

\* the declaration of an event kind made whether or not the kind occurred
DeclareKindAlways(acc, has, kind, failAt) ==
  IF acc.end # "running"
  THEN acc
  ELSE Unwrap(Ioctl(acc, "device_set_event_bit",
                    EnumRaw(EventKindList, Named(kind)), failAt))

\* if has_event_x { device_set_event_bit( EventKind::X ).unwrap() }
DeclareKind(acc, has, kind, failAt) ==
  IF acc.end # "running" \/ ~has
  THEN acc
  ELSE Unwrap(Ioctl(acc, "device_set_event_bit",
                    EnumRaw(EventKindList, Named(kind)), failAt))

DeclareKinds(acc, failAt) ==
  LET k1 == DeclareKind(acc, acc.has_event_key, "Key", failAt)
      k2 == DeclareKind(k1, k1.has_event_relative_axis, "RelativeAxis", failAt)
      k3 == DeclareKind(k2, k2.has_event_absolute_axis, "AbsoluteAxis", failAt)
  IN  DeclareKind(k3, k3.has_event_force_feedback, "ForceFeedback", failAt)

\* name: [0; 80] and setup.name[ 0..name.len() ].copy_from_slice( name.as_bytes() )
NameField(name) ==
  [i \in 1..NameFieldLen |-> IF i <= Len(name) THEN name[i] ELSE 0]

\* RawDeviceSetup, device_setup and device_create
SetupAndCreate(acc, id, name, failAt) ==
  LET setup == [id |-> RawDeviceId(id),
                name |-> NameField(name),
                force_feedback_effects_max |->
                  IF acc.has_event_force_feedback THEN 1 ELSE 0]
      s1 == Ioctl(acc, "device_setup", setup, failAt)
      s2 == Ioctl(s1, "device_create", 0, failAt)
  IN  IF acc.end # "running"
      THEN acc
      ELSE IF Len(name) > NameFieldLen
      THEN [acc EXCEPT !.end = "panic"]
      ELSE IF ~LastOk(s1)
      THEN [s1 EXCEPT !.end = "DeviceSetupFailed"]
      ELSE IF ~LastOk(s2)
      THEN [s2 EXCEPT !.end = "DeviceCreateFailed"]
      ELSE [s2 EXCEPT !.end = "Ok"]

CreateStart ==
  [calls |-> <<>>, end |-> "running", has_event_key |-> FALSE,
   has_event_relative_axis |-> FALSE, has_event_absolute_axis |-> FALSE,
   has_event_force_feedback |-> FALSE]

\* fs::OpenOptions::new()...open( "/dev/uinput" ) and all that follows it
OpenAndDeclare(id, name, event_bits, failAt, overflow_checks) ==
  LET opened == Ioctl(CreateStart, "open", 0, failAt)
  IN  IF ~LastOk(opened)
      THEN [opened EXCEPT !.end = "IoFailure"]
      ELSE SetupAndCreate(
             DeclareKinds(DeclareBits(opened, event_bits, failAt, overflow_checks),
                          failAt),
             id, name, failAt)

\* create with the name test one byte too late
VirtualDeviceCreateLateLimit(id, name, event_bits, failAt, overflow_checks) ==
  IF Len(name) > NameLimit
  THEN [CreateStart EXCEPT !.end = "DeviceNameTooLong"]
  ELSE OpenAndDeclare(id, name, event_bits, failAt, overflow_checks)

\* VirtualDevice::create
VirtualDeviceCreate(id, name, event_bits, failAt, overflow_checks) ==
  IF Len(name) >= NameLimit
  THEN [CreateStart EXCEPT !.end = "DeviceNameTooLong"]
  ELSE OpenAndDeclare(id, name, event_bits, failAt, overflow_checks)

(***************************************************************************)
(* SpecCreate: one call of VirtualDevice::create with drawn arguments and  *)
(* a drawn failing kernel call.                                            *)
(***************************************************************************)
\* a name of n bytes, none of them zero
NameOfLen(n) == [i \in 1..n |-> 97 + (i % 26)]

AllNames == {NameOfLen(n) : n \in 0..MaxNameLen}
EdgeNames == {NameOfLen(n) : n \in {0, NameLimit - 1, NameLimit, MaxNameLen}}

EventBitSamples ==
  {KeyBit(Named("A")), KeyBit(Other(705)), RelativeAxisBit(Named("X")),
   ForceFeedbackBit(Named("Rumble")),
   AbsoluteAxisBit(Named("X"), 0, -100, 100, 1, 2, 3),
   AbsoluteAxisBit(Named("Y"), 0, 5, -5, 0, 0, 0),
   AbsoluteAxisBit(Named("Y"), 0, -5, 5, 0, 0, 0),
   AbsoluteAxisBit(Named("Z"), 0, I32Min, I32Max, 0, 0, 0)}

DeviceIdSample == [bus |-> Named("USB"), vendor |-> 1133, product |-> 49686, version |-> 1]

CreateInputs ==
  {<<n, b>> : n \in AllNames, b \in SeqsUpTo(EventBitSamples, 1)}
  \cup {<<n, b>> : n \in EdgeNames, b \in SeqsUpTo(EventBitSamples, MaxBits)}

\* no run makes more kernel calls than this
MaxKernelCalls == 3 * MaxBits + 3

InitCreate ==
  /\ create = [pc |-> "ready"]
  /\ codec = Idle /\ iter = Idle /\ poll = Idle /\ effect = Idle /\ vdev = Idle /\ dev = Idle
  /\ time = Idle

\* VirtualDevice::create( id, name, event_bits )
Create ==
  /\ create.pc = "ready"
  /\ \E in \in CreateInputs, failAt \in 0..MaxKernelCalls, overflow_checks \in BOOLEAN :
       LET run == VirtualDeviceCreate(DeviceIdSample, in[1], in[2], failAt,
                                      overflow_checks)
       IN  create' = [pc |-> "done", name |-> in[1], event_bits |-> in[2],
                      calls |-> run.calls, result |-> run.end]
  /\ UNCHANGED <<codec, iter, poll, effect, vdev, dev, time>>

NextCreate == Create

SpecCreate == InitCreate /\ [][NextCreate]_vars

\* the name field of a device_setup call holds the name and then only zero bytes
NameTerminated(field, name) ==
  /\ DOMAIN field = 1..NameFieldLen
  /\ \A i \in 1..Len(name) : field[i] = name[i]
  /\ \A i \in (Len(name) + 1)..NameFieldLen : field[i] = 0
  /\ field[Len(name) + 1] = 0

\* C8: a name of 80 bytes or more is rejected with DeviceNameTooLong before any
\* kernel call (no open, no ioctl); a name of 79 bytes or fewer passes the check,
\* and the name field sent to the kernel holds it followed by at least one zero
\* byte.
C8_NameLimit ==
  create.pc = "done" =>
    /\ Len(create.name) >= 80
         => create.result = "DeviceNameTooLong" /\ create.calls = <<>>
    /\ Len(create.name) <= 79
         => /\ create.result # "DeviceNameTooLong"
            /\ create.calls # <<>>
            /\ create.calls[1].call = "open"
            /\ \A i \in 1..Len(create.calls) :
                 create.calls[i].call = "device_setup"
                   => NameTerminated(create.calls[i].arg.name, create.name)

C8_Witness ==
  /\ create.pc = "done"
  /\ Len(create.name) = 79
  /\ create.result = "Ok"
  /\ \E i \in 1..Len(create.calls) :
       /\ create.calls[i].call = "device_setup"
       /\ create.calls[i].arg.name[79] # 0
       /\ create.calls[i].arg.name[80] = 0

\* an absolute axis descriptor whose maximum is less than its minimum
Inverted(bit) ==
  bit.tag = "AbsoluteAxis" /\ bit.descriptor.maximum < bit.descriptor.minimum

\* the positions of event_bits that hold an inverted descriptor
InvertedAt(event_bits) == {k \in 1..Len(event_bits) : Inverted(event_bits[k])}

\* the first such position
FirstInverted(event_bits) ==
  CHOOSE k \in InvertedAt(event_bits) : \A j \in InvertedAt(event_bits) : k <= j

\* the abs_setup call is the one create makes for this (well-formed) descriptor
SetupOf(call, bit) ==
  /\ bit.tag = "AbsoluteAxis"
  /\ ~Inverted(bit)
  /\ call.arg.axis = EnumRaw(AbsoluteAxisList, bit.descriptor.axis)
  /\ call.arg.info.minimum = bit.descriptor.minimum
  /\ call.arg.info.maximum = bit.descriptor.maximum

\* C12: when event_bits holds an absolute axis whose maximum is less than its
\* minimum, create does not return Ok, every abs_setup call it made belongs to a
\* well-formed descriptor ahead of the first inverted one (so none carries the
\* inverted bounds, as given or swapped, on behalf of the inverted descriptor),
\* and neither device_setup nor device_create is called.
C12_InvertedAxisFails ==
  (create.pc = "done" /\ InvertedAt(create.event_bits) # {}) =>
    LET first == FirstInverted(create.event_bits)
        setups == SelectSeq(create.calls, LAMBDA c : c.call = "abs_setup")
        ahead == {k \in 1..(first - 1) : create.event_bits[k].tag = "AbsoluteAxis"}
    IN  /\ create.result # "Ok"
        /\ Len(setups) <= Cardinality(ahead)
        /\ \A i \in 1..Len(setups) :
             \E k \in ahead : SetupOf(setups[i], create.event_bits[k])
        /\ \A i \in 1..Len(create.calls) :
             create.calls[i].call \notin {"device_setup", "device_create"}

C12_Witness ==
  /\ create.pc = "done"
  /\ Len(create.event_bits) = 2
  /\ ~Inverted(create.event_bits[1])
  /\ create.event_bits[1].tag = "AbsoluteAxis"
  /\ Inverted(create.event_bits[2])
  /\ create.result = "panic"
  /\ Len(create.calls) = 4
  /\ create.calls[3].call = "abs_setup"
  /\ create.calls[4] =
       [call |-> "device_set_absolute_axis_bit",
        arg |-> EnumRaw(AbsoluteAxisList, create.event_bits[2].descriptor.axis),
        ok |-> TRUE]

\* what identifies a declaration call: its name and the code it declares, for
\* abs_setup the axis and its bounds
CallSig(c) ==
  IF c.call = "abs_setup"
  THEN <<c.call, c.arg.axis, c.arg.info.minimum, c.arg.info.maximum>>
  ELSE <<c.call, c.arg>>

\* the declarations the claim asks for one capability
WantedFor(bit) ==
  CASE bit.tag = "Key" -> <<<<"device_set_key_bit", EnumRaw(KeyList, bit.code)>>>>
    [] bit.tag = "RelativeAxis" ->
         <<<<"device_set_relative_axis_bit", EnumRaw(RelativeAxisList, bit.code)>>>>
    [] bit.tag = "ForceFeedback" ->
         <<<<"device_set_force_feedback_bit", EnumRaw(ForceFeedbackList, bit.code)>>>>
    [] bit.tag = "AbsoluteAxis" ->
         <<<<"device_set_absolute_axis_bit",
             EnumRaw(AbsoluteAxisList, bit.descriptor.axis)>>,
           <<"abs_setup", EnumRaw(AbsoluteAxisList, bit.descriptor.axis),
             bit.descriptor.minimum, bit.descriptor.maximum>>>>

\* ... for a sequence of capabilities, in input order
RECURSIVE Wanted(_)
Wanted(event_bits) ==
  IF event_bits = <<>> THEN <<>>
  ELSE WantedFor(Head(event_bits)) \o Wanted(Tail(event_bits))

\* the raw codes of the event kinds that occur in a sequence of capabilities
KindsOf(event_bits) ==
  {EnumRaw(EventKindList, Named(event_bits[k].tag)) : k \in 1..Len(event_bits)}

\* C19: a run of create that returns Ok has made, in this order: the open; for
\* each capability in input order its declaration (an absolute axis: its bit,
\* then its abs_setup); one event-kind declaration for each kind that occurs in
\* the sequence and for no other; device_setup with the identity, the name and
\* an effect count of 1 if a force-feedback capability occurred and 0
\* otherwise; device_create as the last call.  In every run, device_create is
\* the last call made and directly follows a device_setup that succeeded.
C19_CallOrder ==
  create.pc = "done" =>
    LET calls == create.calls
        n == Len(calls)
        wanted == Wanted(create.event_bits)
        d == Len(wanted)
        kinds == KindsOf(create.event_bits)
        k == Cardinality(kinds)
        hasFF == \E i \in 1..Len(create.event_bits) :
                   create.event_bits[i].tag = "ForceFeedback"
    IN  /\ create.result = "Ok" =>
             /\ n = 1 + d + k + 2
             /\ \A i \in 1..n : calls[i].ok
             /\ calls[1].call = "open"
             /\ \A i \in 1..d : CallSig(calls[1 + i]) = wanted[i]
             /\ \A i \in 1..k : calls[1 + d + i].call = "device_set_event_bit"
             /\ {calls[1 + d + i].arg : i \in 1..k} = kinds
             /\ calls[n - 1].call = "device_setup"
             /\ calls[n - 1].arg.id = RawDeviceId(DeviceIdSample)
             /\ NameTerminated(calls[n - 1].arg.name, create.name)
             /\ calls[n - 1].arg.force_feedback_effects_max = (IF hasFF THEN 1 ELSE 0)
             /\ calls[n].call = "device_create"
        /\ \A i \in 1..n :
             calls[i].call = "device_create"
               => i = n /\ calls[i - 1].call = "device_setup" /\ calls[i - 1].ok

C19_Witness ==
  /\ create.pc = "done"
  /\ create.result = "Ok"
  /\ Len(create.event_bits) = 2
  /\ create.event_bits[1].tag = "ForceFeedback"
  /\ create.event_bits[2].tag = "AbsoluteAxis"
  /\ Len(create.calls) = 8
  /\ create.calls[4].call = "abs_setup"
  /\ create.calls[5].arg = 3 /\ create.calls[6].arg = 21
  /\ create.calls[7].arg.force_feedback_effects_max = 1
  /\ create.calls[8].call = "device_create"

\* the DeviceCreateError that names the phase of a kernel call
PhaseError(call) ==
  CASE call = "open" -> "IoFailure"
    [] call = "device_create" -> "DeviceCreateFailed"
    [] OTHER -> "DeviceSetupFailed"

\* C17: a run of create in which the kernel rejected a call ends in the
\* DeviceCreateError value of that call's phase: IoFailure for the open,
\* DeviceSetupFailed for a capability, event-kind, axis-setup or device-setup
\* declaration, DeviceCreateFailed for the activation; a name that is too long
\* ends in DeviceNameTooLong.
C17_StructuredErrors ==
  create.pc = "done" =>
    /\ Len(create.name) >= NameLimit => create.result = "DeviceNameTooLong"
    /\ \A i \in 1..Len(create.calls) :
         ~create.calls[i].ok => create.result = PhaseError(create.calls[i].call)

\* minimum plus half of the distance from minimum to maximum, rounded down,
\* for maximum >= minimum, in unbounded arithmetic
MidPoint(minimum, maximum) ==
  IF SubOverflows(maximum, minimum)
  THEN ((maximum \div 2 - Half(minimum))
          + (IF maximum % 2 = 1 /\ minimum % 2 = 1 THEN 1 ELSE 0)) + minimum
  ELSE Half(maximum - minimum) + minimum

\* C25: in a run in which the kernel accepts every call and no descriptor ahead
\* is inverted, create sends for every absolute axis with maximum >= minimum
\* an abs_setup record that carries the descriptor's minimum, maximum, noise
\* threshold, deadzone and resolution unchanged and the value
\* (maximum - minimum) / 2 + minimum, computed without overflow, so that it
\* lies between minimum and maximum.
C25_AbsSetupRecord ==
  (create.pc = "done" /\ Len(create.name) < NameLimit) =>
    \A k \in 1..Len(create.event_bits) :
      LET bit == create.event_bits[k]
          i == 1 + Len(Wanted(SubSeq(create.event_bits, 1, k)))
      IN  (/\ bit.tag = "AbsoluteAxis"
           /\ \A j \in 1..k : ~Inverted(create.event_bits[j])
           /\ \A c \in 1..Len(create.calls) : create.calls[c].ok)
            => /\ i <= Len(create.calls)
               /\ create.calls[i].call = "abs_setup"
               /\ create.calls[i].arg.axis = EnumRaw(AbsoluteAxisList, bit.descriptor.axis)
               /\ create.calls[i].arg.info.minimum = bit.descriptor.minimum
               /\ create.calls[i].arg.info.maximum = bit.descriptor.maximum
               /\ create.calls[i].arg.info.noise_threshold = bit.descriptor.noise_threshold
               /\ create.calls[i].arg.info.deadzone = bit.descriptor.deadzone
               /\ create.calls[i].arg.info.resolution = bit.descriptor.resolution
               /\ create.calls[i].arg.info.value
                    = MidPoint(bit.descriptor.minimum, bit.descriptor.maximum)
               /\ create.calls[i].arg.info.value >= bit.descriptor.minimum
               /\ create.calls[i].arg.info.value <= bit.descriptor.maximum

(***************************************************************************)
(* A created VirtualDevice and its force-feedback transaction guards       *)
(* (uinput.rs).  The kernel is the environment: it decides what            *)
(* read_raw_input_event returns and whether an ioctl succeeds.  The ioctls *)
(* issued are logged as [call, request_id, guard, ok]; guard is the index  *)
(* of the guard an accepted begin ioctl made or a finalize ioctl was       *)
(* issued for (0 for the others).                                          *)
(***************************************************************************)
MaxGuards == 2
MaxFFPolls == 2

EV_UINPUT == 257
UI_FF_UPLOAD == 1
UI_FF_ERASE == 2
FF_GAIN == 96
EV_FF == EnumRaw(EventKindList, Named("ForceFeedback"))

\* value as u32, kept as two 16-bit halves
AsU32(value) == [hi |-> (value \div (U16Max + 1)) % (U16Max + 1),
                 lo |-> value % (U16Max + 1)]

\* value as u16 of an i16 or a u32
I16AsU16(value) == value % (U16Max + 1)

FFRequest(ret, a, b) == [ret |-> ret, a |-> a, b |-> b]

Guard(kind, request_id, effect_kind, effect_id) ==
  [kind |-> kind, request_id |-> request_id, effect_kind |-> effect_kind,
   effect_id |-> effect_id, is_finished |-> FALSE, held |-> TRUE,
   completed |-> FALSE, ret |-> "none"]

EndCall(g) ==
  IF g.kind = "Upload" THEN "end_force_feedback_upload" ELSE "end_force_feedback_erase"

\* finish without the is_finished test
FinishAlways(v, i, ok) ==
  [v EXCEPT !.guards[i].is_finished = TRUE,
            !.guards[i].ret = IF ok THEN "Ok" ELSE "Err",
            !.log = Append(@, [call |-> EndCall(v.guards[i]),
                               request_id |-> v.guards[i].request_id,
                               guard |-> i, ok |-> ok])]

\* finish that leaves is_finished unset when the finalize ioctl fails
FinishRetryOnError(v, i, ok) ==
  IF v.guards[i].is_finished
  THEN [v EXCEPT !.guards[i].ret = "Ok"]
  ELSE [v EXCEPT !.guards[i].is_finished = ok,
                 !.guards[i].ret = IF ok THEN "Ok" ELSE "Err",
                 !.log = Append(@, [call |-> EndCall(v.guards[i]),
                                    request_id |-> v.guards[i].request_id,
                                    guard |-> i, ok |-> ok])]

\* ForceFeedbackEffectUpload::finish and ForceFeedbackEffectErase::finish on
\* guard i; ok is the kernel's answer to the finalize ioctl, if it is issued
Finish(v, i, ok) ==
  IF v.guards[i].is_finished
  THEN [v EXCEPT !.guards[i].ret = "Ok"]
  ELSE [v EXCEPT !.guards[i].is_finished = TRUE,
                 !.guards[i].ret = IF ok THEN "Ok" ELSE "Err",
                 !.log = Append(@, [call |-> EndCall(v.guards[i]),
                                    request_id |-> v.guards[i].request_id,
                                    guard |-> i, ok |-> ok])]

\* impl Drop for ForceFeedbackEffectUpload / ForceFeedbackEffectErase:
\* let _ = self.finish()
DropOf(v, i, ok) ==
  LET f == Finish(v, i, ok)
  IN  [f EXCEPT !.guards[i].held = FALSE, !.guards[i].ret = v.guards[i].ret]

\* complete( mut self ): self.finish(), then self goes out of scope
CompleteOf(v, i, ok, okAgain) ==
  LET f == Finish(v, i, ok)
      d == DropOf(f, i, okAgain)
  IN  [d EXCEPT !.guards[i].completed = TRUE, !.guards[i].ret = f.guards[i].ret]

\* poll_force_feedback that takes a value of zero for an Enable request
PollForceFeedbackOfEnableOnZero(v, read, begin) ==
  IF read.is = "err"
  THEN [v EXCEPT !.last = FFRequest("Err", read.errno, 0)]
  ELSE IF read.is = "none"
  THEN [v EXCEPT !.last = FFRequest("None", 0, 0)]
  ELSE LET event == read.event
           isUpload == event.kind = EV_UINPUT /\ event.code = UI_FF_UPLOAD
           isErase == event.kind = EV_UINPUT /\ event.code = UI_FF_ERASE
           beginCall == [call |-> IF isUpload THEN "begin_force_feedback_upload"
                                              ELSE "begin_force_feedback_erase",
                         request_id |-> AsU32(event.value),
                         guard |-> IF begin.ok THEN Len(v.guards) + 1 ELSE 0,
                         ok |-> begin.ok]
       IN  IF isUpload \/ isErase
           THEN IF ~begin.ok
                THEN [v EXCEPT !.log = Append(@, beginCall),
                               !.last = FFRequest("Err", begin.errno, 0)]
                ELSE [v EXCEPT
                        !.log = Append(@, beginCall),
                        !.guards = Append(@, Guard(IF isUpload THEN "Upload" ELSE "Erase",
                                                   AsU32(event.value),
                                                   IF isUpload THEN begin.effect_kind ELSE 0,
                                                   begin.effect_id)),
                        !.last = FFRequest(IF isUpload THEN "Upload" ELSE "Erase",
                                           Len(v.guards) + 1, 0)]
           ELSE IF event.kind = EV_FF
           THEN IF event.code < FF_GAIN
                THEN IF event.value >= 0
                     THEN [v EXCEPT !.last = FFRequest("Enable", event.code, event.value)]
                     ELSE [v EXCEPT !.last = FFRequest("Disable", event.code, 0)]
                ELSE [v EXCEPT !.last = FFRequest("Other", event.code, event.value)]
           ELSE [v EXCEPT !.last = FFRequest("panic", event.kind, 0)]

\* the arms of poll_force_feedback for what read_raw_input_event returned; begin
\* is the kernel's answer to the begin ioctl of an upload or erase request
PollForceFeedbackOf(v, read, begin) ==
  IF read.is = "err"
  THEN [v EXCEPT !.last = FFRequest("Err", read.errno, 0)]
  ELSE IF read.is = "none"
  THEN [v EXCEPT !.last = FFRequest("None", 0, 0)]
  ELSE LET event == read.event
           isUpload == event.kind = EV_UINPUT /\ event.code = UI_FF_UPLOAD
           isErase == event.kind = EV_UINPUT /\ event.code = UI_FF_ERASE
           beginCall == [call |-> IF isUpload THEN "begin_force_feedback_upload"
                                              ELSE "begin_force_feedback_erase",
                         request_id |-> AsU32(event.value),
                         guard |-> IF begin.ok THEN Len(v.guards) + 1 ELSE 0,
                         ok |-> begin.ok]
       IN  IF isUpload \/ isErase
           THEN IF ~begin.ok
                THEN [v EXCEPT !.log = Append(@, beginCall),
                               !.last = FFRequest("Err", begin.errno, 0)]
                ELSE [v EXCEPT
                        !.log = Append(@, beginCall),
                        !.guards = Append(@, Guard(IF isUpload THEN "Upload" ELSE "Erase",
                                                   AsU32(event.value),
                                                   IF isUpload THEN begin.effect_kind ELSE 0,
                                                   begin.effect_id)),
                        !.last = FFRequest(IF isUpload THEN "Upload" ELSE "Erase",
                                           Len(v.guards) + 1, 0)]
           ELSE IF event.kind = EV_FF
           THEN IF event.code < FF_GAIN
                THEN IF event.value > 0
                     THEN [v EXCEPT !.last = FFRequest("Enable", event.code, event.value)]
                     ELSE [v EXCEPT !.last = FFRequest("Disable", event.code, 0)]
                ELSE [v EXCEPT !.last = FFRequest("Other", event.code, event.value)]
           ELSE [v EXCEPT !.last = FFRequest("panic", event.kind, 0)]

(***************************************************************************)
(* SpecGuard: a live VirtualDevice is polled for force-feedback requests;  *)
(* the guards it hands out are read, completed or dropped, and the device  *)
(* is dropped when no guard borrows it any more.                           *)
(***************************************************************************)
FFEventSamples ==
  {RawInputEvent([sec |-> 0, usec |-> 0], EV_UINPUT, UI_FF_UPLOAD, -1)}
  \cup {RawInputEvent([sec |-> 0, usec |-> 0], EV_UINPUT, c, 2) : c \in {UI_FF_ERASE, 3}}
  \cup {RawInputEvent([sec |-> 0, usec |-> 0], EV_FF, c, val) :
          c \in {FF_GAIN - 1, FF_GAIN}, val \in {-1, 0, 2}}
  \cup {RawInputEvent([sec |-> 0, usec |-> 0], EV_KEY, UI_FF_UPLOAD, 1)}

ReadSamples ==
  {[is |-> "err", errno |-> EBADF], [is |-> "none"]}
  \cup {[is |-> "event", event |-> e] : e \in FFEventSamples}

BeginSamples ==
  {[ok |-> FALSE, errno |-> EINVAL, effect_kind |-> 0, effect_id |-> 0]}
  \cup {[ok |-> TRUE, errno |-> 0, effect_kind |-> FF_RUMBLE, effect_id |-> 4],
        [ok |-> TRUE, errno |-> 0, effect_kind |-> FF_PERIODIC, effect_id |-> -1]}

\* vdev.seen when the last call that returned a value was not a poll
NotPolled == [is |-> "not polled"]

\* the arguments and the failing kernel call of the create that starts a run
GuardCreateInputs ==
  {<<n, b, f>> : n \in {NameOfLen(0), NameOfLen(NameLimit)},
                 b \in {<<>>, <<ForceFeedbackBit(Named("Rumble"))>>},
                 f \in 0..5}

\* let device = VirtualDevice { fp }: there is a VirtualDevice only once every
\* step of create has succeeded
CreatedDevice(run) == IF run.end = "Ok" THEN "live" ELSE "failed"

InitGuard ==
  /\ vdev = [pc |-> "vdev", device |-> "none", guards |-> <<>>, log |-> <<>>,
             polls |-> 0, last |-> FFRequest("none", 0, 0), seen |-> NotPolled]
  /\ codec = Idle /\ iter = Idle /\ poll = Idle /\ effect = Idle /\ create = Idle /\ dev = Idle
  /\ time = Idle

\* VirtualDevice::create: on an error or a panic the File is closed and no
\* VirtualDevice exists, so none is ever dropped
CreateDevice ==
  /\ vdev.device = "none"
  /\ \E in \in GuardCreateInputs :
       LET run == VirtualDeviceCreate(DeviceIdSample, in[1], in[2], in[3], TRUE)
       IN  vdev' = [vdev EXCEPT !.device = CreatedDevice(run)]
  /\ UNCHANGED <<codec, iter, poll, effect, create, dev, time>>

\* VirtualDevice::poll_force_feedback
PollForceFeedback ==
  /\ vdev.device = "live"
  /\ Len(vdev.guards) < MaxGuards
  /\ vdev.polls < MaxFFPolls
  /\ \E read \in ReadSamples, begin \in BeginSamples :
       vdev' = [PollForceFeedbackOf(vdev, read, begin) EXCEPT !.polls = @ + 1,
                                                              !.seen = read]
  /\ UNCHANGED <<codec, iter, poll, effect, create, dev, time>>

\* ForceFeedbackEffectUpload::effect_id / ForceFeedbackEffectErase::effect_id
GuardEffectId ==
  /\ \E i \in 1..Len(vdev.guards) :
       /\ vdev.guards[i].held
       /\ vdev' = [vdev EXCEPT !.last = FFRequest("effect_id",
                                                  I16AsU16(vdev.guards[i].effect_id), 0),
                                !.seen = NotPolled]
  /\ UNCHANGED <<codec, iter, poll, effect, create, dev, time>>

\* ForceFeedbackEffectUpload::effect( &self ): an effect kind that is not
\* decoded panics.  The method only borrows the guard and finalizes nothing:
\* the guard stays held, and it is dropped (GuardDrop) when the panic unwinds
\* through the frame that owns it, or later if the panic is caught below it.
GuardEffect ==
  /\ \E i \in 1..Len(vdev.guards) :
       /\ vdev.guards[i].held
       /\ vdev.guards[i].kind = "Upload"
       /\ IF EffectKindFromRaw(vdev.guards[i].effect_kind,
                               [rumble |-> [strong_magnitude |-> 0,
                                            weak_magnitude |-> 0]]).ok
          THEN vdev' = [vdev EXCEPT !.last = FFRequest("effect", i, 0),
                                    !.seen = NotPolled]
          ELSE vdev' = [vdev EXCEPT !.last = FFRequest("panic", i, 0),
                                    !.seen = NotPolled]
  /\ UNCHANGED <<codec, iter, poll, effect, create, dev, time>>

\* ForceFeedbackEffectUpload::complete / ForceFeedbackEffectErase::complete
GuardComplete ==
  /\ \E i \in 1..Len(vdev.guards), ok \in BOOLEAN, okAgain \in BOOLEAN :
       /\ vdev.guards[i].held
       /\ vdev' = CompleteOf(vdev, i, ok, okAgain)
  /\ UNCHANGED <<codec, iter, poll, effect, create, dev, time>>

\* a guard goes out of scope without complete()
GuardDrop ==
  /\ \E i \in 1..Len(vdev.guards), ok \in BOOLEAN :
       /\ vdev.guards[i].held
       /\ vdev' = DropOf(vdev, i, ok)
  /\ UNCHANGED <<codec, iter, poll, effect, create, dev, time>>

\* a VirtualDevice dropped while guards still refer to it
DeviceDropWhileBorrowed ==
  /\ vdev.device = "live"
  /\ \E ok \in BOOLEAN :
       vdev' = [vdev EXCEPT !.device = "dropped",
                            !.log = Append(@, [call |-> "device_destroy",
                                               request_id |-> AsU32(0), guard |-> 0,
                                               ok |-> ok])]
  /\ UNCHANGED <<codec, iter, poll, effect, create, dev, time>>

\* impl Drop for VirtualDevice; the guards borrow the device, so none is held
DeviceDrop ==
  /\ vdev.device = "live"
  /\ \A i \in 1..Len(vdev.guards) : ~vdev.guards[i].held
  /\ \E ok \in BOOLEAN :
       vdev' = [vdev EXCEPT !.device = "dropped",
                            !.log = Append(@, [call |-> "device_destroy",
                                               request_id |-> AsU32(0), guard |-> 0,
                                               ok |-> ok])]
  /\ UNCHANGED <<codec, iter, poll, effect, create, dev, time>>

NextGuard ==
  \/ CreateDevice
  \/ PollForceFeedback
  \/ GuardEffectId
  \/ GuardEffect
  \/ GuardComplete
  \/ GuardDrop
  \/ DeviceDrop

SpecGuard == InitGuard /\ [][NextGuard]_vars

\* the finalize ioctls issued for guard i
Finalizes(i) ==
  {n \in 1..Len(vdev.log) :
     /\ vdev.log[n].guard = i
     /\ vdev.log[n].call \in {"end_force_feedback_upload", "end_force_feedback_erase"}}

\* C1: the finalize ioctl of a guard is issued exactly once: none while the guard
\* is held, one (of the guard's own kind) once it is gone, whether it was dropped
\* without complete() or dropped at the end of complete().
C1_FinalizeOnce ==
  vdev.pc = "vdev" =>
    \A i \in 1..Len(vdev.guards) :
      /\ vdev.guards[i].held => Finalizes(i) = {}
      /\ ~vdev.guards[i].held
           => /\ Cardinality(Finalizes(i)) = 1
              /\ \A n \in Finalizes(i) : vdev.log[n].call = EndCall(vdev.guards[i])

C1_Witness ==
  /\ vdev.pc = "vdev"
  /\ Len(vdev.guards) = 2
  /\ vdev.guards[1].kind = "Upload"
  /\ vdev.guards[1].completed /\ ~vdev.guards[1].held
  /\ vdev.last = FFRequest("effect", 1, 0)
  /\ vdev.guards[2].kind = "Erase"
  /\ ~vdev.guards[2].completed /\ ~vdev.guards[2].held
  /\ Cardinality(Finalizes(1)) = 1
  /\ Cardinality(Finalizes(2)) = 1

\* the guard the last poll handed out is for this event
GuardFor(kind, event) ==
  /\ vdev.last.ret = kind
  /\ vdev.last.a \in 1..Len(vdev.guards)
  /\ vdev.guards[vdev.last.a].kind = kind
  /\ vdev.guards[vdev.last.a].request_id = AsU32(event.value)

\* the begin ioctl for this event was rejected and the poll returned Err
BeginRejected(call, event) ==
  /\ vdev.last.ret = "Err"
  /\ \E n \in 1..Len(vdev.log) :
       /\ vdev.log[n].call = call
       /\ vdev.log[n].request_id = AsU32(event.value)
       /\ ~vdev.log[n].ok

\* the arms for the events that are neither an upload nor an erase request
DirectRule(event) ==
  /\ (event.kind = EV_FF /\ event.code < FF_GAIN /\ event.value > 0)
       => vdev.last = FFRequest("Enable", event.code, event.value)
  /\ (event.kind = EV_FF /\ event.code < FF_GAIN /\ event.value <= 0)
       => vdev.last = FFRequest("Disable", event.code, 0)
  /\ (event.kind = EV_FF /\ event.code >= FF_GAIN)
       => vdev.last = FFRequest("Other", event.code, event.value)
  /\ (/\ event.kind # EV_FF
      /\ ~(event.kind = EV_UINPUT /\ event.code \in {UI_FF_UPLOAD, UI_FF_ERASE}))
       => vdev.last.ret = "panic"
  /\ vdev.last.ret # "None"

\* C18 as stated: the event poll_force_feedback read decides its result: an
\* upload request gives an Upload guard, an erase request an Erase guard, a
\* force-feedback event below FF_GAIN gives Enable for a value above zero and
\* Disable otherwise, one at or above FF_GAIN gives Other, any other event is
\* fatal, and no event gives Ok(None).
C18_Classification ==
  vdev.seen.is = "event" =>
    LET event == vdev.seen.event
    IN  /\ (event.kind = EV_UINPUT /\ event.code = UI_FF_UPLOAD)
             => GuardFor("Upload", event)
        /\ (event.kind = EV_UINPUT /\ event.code = UI_FF_ERASE)
             => GuardFor("Erase", event)
        /\ DirectRule(event)

\* C18, amended: as above, but an upload or erase request gives its guard only
\* when the kernel accepts the begin ioctl; when the kernel rejects it the poll
\* returns Err and hands out no guard.
C18_ClassificationUnlessRejected ==
  vdev.seen.is = "event" =>
    LET event == vdev.seen.event
    IN  /\ (event.kind = EV_UINPUT /\ event.code = UI_FF_UPLOAD)
             => \/ GuardFor("Upload", event)
                \/ BeginRejected("begin_force_feedback_upload", event)
        /\ (event.kind = EV_UINPUT /\ event.code = UI_FF_ERASE)
             => \/ GuardFor("Erase", event)
                \/ BeginRejected("begin_force_feedback_erase", event)
        /\ DirectRule(event)

C18_Witness ==
  /\ vdev.polls = 2
  /\ vdev.seen.is = "event"
  /\ vdev.seen.event.kind = EV_FF
  /\ vdev.seen.event.code = FF_GAIN - 1
  /\ vdev.seen.event.value = 0
  /\ vdev.last = FFRequest("Disable", FF_GAIN - 1, 0)
  /\ Len(vdev.guards) = 1
  /\ vdev.guards[1].kind = "Upload"

\* the device_destroy calls issued
Teardowns == {n \in 1..Len(vdev.log) : vdev.log[n].call = "device_destroy"}

\* C21: the finalize ioctl of every guard is issued before device_destroy;
\* device_destroy is issued exactly once, when the VirtualDevice is dropped
\* (after which nothing more is issued), never while the device is alive and
\* never for a create that failed.
C21_TeardownLast ==
  vdev.pc = "vdev" =>
    /\ vdev.device \in {"none", "failed", "live"} => Teardowns = {}
    /\ vdev.device = "failed" => vdev.log = <<>> /\ vdev.guards = <<>>
    /\ vdev.device = "dropped" =>
         /\ Teardowns = {Len(vdev.log)}
         /\ \A i \in 1..Len(vdev.guards) :
              \E n \in 1..(Len(vdev.log) - 1) : n \in Finalizes(i)
    /\ \A t \in Teardowns :
         \A n \in (t + 1)..Len(vdev.log) : vdev.log[n].guard = 0

C21_Witness ==
  /\ vdev.pc = "vdev"
  /\ vdev.device = "dropped"
  /\ Len(vdev.guards) = 2
  /\ Len(vdev.log) = 5
  /\ vdev.log[5].call = "device_destroy"
  /\ vdev.log[4].call = "end_force_feedback_erase"
  /\ vdev.log[3].call = "begin_force_feedback_erase"
  /\ vdev.log[2].call = "end_force_feedback_upload"

\* the begin ioctl that made guard i
BeginOf(i) ==
  {n \in 1..Len(vdev.log) :
     /\ vdev.log[n].guard = i
     /\ vdev.log[n].call \in {"begin_force_feedback_upload",
                              "begin_force_feedback_erase"}}

\* C23: the finalize ioctl of a guard is attempted at most once, whether it
\* succeeds or fails: complete() returns Err exactly when its finalize ioctl
\* failed and the drop that follows issues nothing more, a drop without
\* complete() discards the outcome, and the request id of the finalize ioctl
\* is the one of the begin ioctl, which is the value of the event that made
\* the guard.
C23_FinalizeNotRetried ==
  vdev.pc = "vdev" =>
    /\ \A i \in 1..Len(vdev.guards) :
         LET g == vdev.guards[i]
             finalizes == Finalizes(i)
             begins == BeginOf(i)
         IN  /\ Cardinality(finalizes) <= 1
             /\ Cardinality(begins) = 1
             /\ \A n \in finalizes :
                  /\ g.completed => g.ret = (IF vdev.log[n].ok THEN "Ok" ELSE "Err")
                  /\ \A b \in begins :
                       /\ b < n
                       /\ vdev.log[n].request_id = vdev.log[b].request_id
                       /\ vdev.log[n].request_id = g.request_id
             /\ (~g.held /\ ~g.completed) => g.ret = "none"
             /\ g.completed => ~g.held /\ finalizes # {}
    /\ (vdev.seen.is = "event" /\ vdev.last.ret \in {"Upload", "Erase"})
         => /\ vdev.last.a = Len(vdev.guards)
            /\ vdev.guards[vdev.last.a].request_id = AsU32(vdev.seen.event.value)
            /\ \A b \in BeginOf(vdev.last.a) :
                 vdev.log[b].request_id = AsU32(vdev.seen.event.value)

C23_Witness ==
  /\ vdev.pc = "vdev"
  /\ Len(vdev.guards) = 2
  /\ vdev.guards[1].completed /\ ~vdev.guards[1].held
  /\ vdev.guards[1].ret = "Err"
  /\ ~vdev.guards[2].completed /\ ~vdev.guards[2].held
  /\ vdev.guards[2].ret = "none"
  /\ vdev.guards[1].request_id # vdev.guards[2].request_id
  /\ \A i \in 1..2 :
       /\ Cardinality(Finalizes(i)) = 1
       /\ \A n \in Finalizes(i) : ~vdev.log[n].ok

(***************************************************************************)
(* Device (input.rs): open, read and emit.  The kernel is the environment: *)
(* it answers every system call and it queues the records a read returns.  *)
(* A system call is logged as [call, arg, result, errno]; a result of the  *)
(* library is [is, opt, errno] with is one of "Ok", "Err" and "panic" and  *)
(* opt the Option of an Ok result as a sequence of at most one element.    *)
(***************************************************************************)
O_RDWR == 2
O_NONBLOCK == 2048
CLOCK_MONOTONIC == 1
EAGAIN == 11
ENOENT == 2

\* mem::size_of::< RawInputEvent >() on a 64-bit target
RecordSize == 24

IoOk(opt) == [is |-> "Ok", opt |-> opt, errno |-> 0]
IoErr(errno) == [is |-> "Err", opt |-> <<>>, errno |-> errno]
IoPanic == [is |-> "panic", opt |-> <<>>, errno |-> 0]

\* one system call and the kernel's answer to it
Syscall(call, arg, answer) ==
  [call |-> call, arg |-> arg, result |-> answer.result, errno |-> answer.errno]

BitOr(a, b) == a + b - BitAnd(a, b)

\* Device::open, from the answers of open, the two fcntl and the ioctl on
DeviceOpen(opened, getfl, setfl, clock) ==
  LET c1 == <<Syscall("open", O_RDWR, opened)>>
      c2 == Append(c1, Syscall("fcntl_getfl", 0, getfl))
      c3 == Append(c2, Syscall("fcntl_setfl", BitOr(Max(getfl.result, 0), O_NONBLOCK),
                               setfl))
      c4 == Append(c3, Syscall("evdev_set_clock_id", CLOCK_MONOTONIC, clock))
  IN  IF opened.result < 0
      THEN [ret |-> IoErr(opened.errno), syscalls |-> c1]
      ELSE IF getfl.result < 0
      THEN [ret |-> IoErr(getfl.errno), syscalls |-> c2]
      ELSE IF setfl.result < -1
      THEN [ret |-> IoErr(setfl.errno), syscalls |-> c3]
      ELSE IF clock.result < 0
      THEN [ret |-> IoErr(clock.errno), syscalls |-> c4]
      ELSE [ret |-> IoOk(<<>>), syscalls |-> c4]

\* read_raw_input_event with the read issued whatever the poll said
ReadRawInputEventAlwaysReads(timeout, outcome, got) ==
  LET ready == PollRead(outcome)
      c1 == <<Syscall("ppoll", [timeout |-> Timespec(timeout),
                                revents |-> outcome.revents], outcome)>>
      c2 == Append(c1, Syscall("read", RecordSize, got))
  IN  IF ~ready.ok
      THEN [ret |-> IoErr(ready.errno), syscalls |-> c1]
      ELSE IF got.result < 0
      THEN [ret |-> IoErr(got.errno), syscalls |-> c2]
      ELSE IF got.result = RecordSize
      THEN [ret |-> IoOk(<<got.buffer>>), syscalls |-> c2]
      ELSE IF got.result = 0
      THEN [ret |-> IoOk(<<>>), syscalls |-> c2]
      ELSE [ret |-> IoPanic, syscalls |-> c2]

\* read_raw_input_event that returns the buffer as it was before the read
ReadRawInputEventStaleBuffer(timeout, outcome, got) ==
  LET ready == PollRead(outcome)
      c1 == <<Syscall("ppoll", [timeout |-> Timespec(timeout),
                                revents |-> outcome.revents], outcome)>>
      c2 == Append(c1, Syscall("read", RecordSize, got))
  IN  IF ~ready.ok
      THEN [ret |-> IoErr(ready.errno), syscalls |-> c1]
      ELSE IF ~ready.v
      THEN [ret |-> IoOk(<<>>), syscalls |-> c1]
      ELSE IF got.result < 0
      THEN [ret |-> IoErr(got.errno), syscalls |-> c2]
      ELSE IF got.result = RecordSize
      THEN [ret |-> IoOk(<<RawInputEvent([sec |-> 0, usec |-> 0], 0, 0, 0)>>),
            syscalls |-> c2]
      ELSE IF got.result = 0
      THEN [ret |-> IoOk(<<>>), syscalls |-> c2]
      ELSE [ret |-> IoPanic, syscalls |-> c2]

\* read_raw_input_event, from the answers of ppoll and read on
ReadRawInputEvent(timeout, outcome, got) ==
  LET ready == PollRead(outcome)
      c1 == <<Syscall("ppoll", [timeout |-> Timespec(timeout),
                                revents |-> outcome.revents], outcome)>>
      c2 == Append(c1, Syscall("read", RecordSize, got))
  IN  IF ~ready.ok
      THEN [ret |-> IoErr(ready.errno), syscalls |-> c1]
      ELSE IF ~ready.v
      THEN [ret |-> IoOk(<<>>), syscalls |-> c1]
      ELSE IF got.result < 0
      THEN [ret |-> IoErr(got.errno), syscalls |-> c2]
      ELSE IF got.result = RecordSize
      THEN [ret |-> IoOk(<<got.buffer>>), syscalls |-> c2]
      ELSE IF got.result = 0
      THEN [ret |-> IoOk(<<>>), syscalls |-> c2]
      ELSE [ret |-> IoPanic, syscalls |-> c2]

\* Device::read: .map( |event| event.map( |event| event.into() ) )
DeviceRead(timeout, outcome, got) ==
  LET raw == ReadRawInputEvent(timeout, outcome, got)
  IN  IF raw.ret.is = "Ok" /\ raw.ret.opt # <<>>
      THEN [raw EXCEPT !.ret = IoOk(<<InputEventFromRaw(raw.ret.opt[1])>>)]
      ELSE raw

ZeroTimestamp == [sec |-> 0, usec |-> 0]

\* emit_into that keeps the timestamp of the event it is given
EmitIntoKeepsTimestamp(event, wrote) ==
  LET stamp == IF "timestamp" \in DOMAIN event THEN event.timestamp
                                                ELSE [sec |-> 1, usec |-> 0]
      raw_event == RawFromInputEvent(InputEvent(stamp, event.body))
      c1 == <<Syscall("write", raw_event, wrote)>>
  IN  IF wrote.result < 0
      THEN [ret |-> IoErr(wrote.errno), syscalls |-> c1]
      ELSE IF wrote.result # RecordSize
      THEN [ret |-> IoPanic, syscalls |-> c1]
      ELSE [ret |-> IoOk(<<>>), syscalls |-> c1]

\* emit_into that returns Ok after a short write
EmitIntoIgnoresCount(event, wrote) ==
  LET raw_event == RawFromInputEvent(InputEvent(ZeroTimestamp, event.body))
      c1 == <<Syscall("write", raw_event, wrote)>>
  IN  IF wrote.result < 0
      THEN [ret |-> IoErr(wrote.errno), syscalls |-> c1]
      ELSE [ret |-> IoOk(<<>>), syscalls |-> c1]

\* emit_into, from the answer of write on; event stands for the AsRef argument
EmitInto(event, wrote) ==
  LET raw_event == RawFromInputEvent(InputEvent(ZeroTimestamp, event.body))
      c1 == <<Syscall("write", raw_event, wrote)>>
  IN  IF wrote.result < 0
      THEN [ret |-> IoErr(wrote.errno), syscalls |-> c1]
      ELSE IF wrote.result # RecordSize
      THEN [ret |-> IoPanic, syscalls |-> c1]
      ELSE [ret |-> IoOk(<<>>), syscalls |-> c1]

\* the largest id upload_force_feedback_effect returns: std::i16::MAX
I16Max == 32767

\* enable_force_feedback_effect that emits a value of zero
EnableForceFeedbackEffectValueZero(effect_id, cycle_count, wrote) ==
  EmitInto([body |-> OtherBody(Named("ForceFeedback"), I16AsU16(effect_id), 0)], wrote)

\* Device::enable_force_feedback_effect; effect_id is the i16 of the
\* ForceFeedbackEffectId
EnableForceFeedbackEffect(effect_id, cycle_count, wrote) ==
  EmitInto([body |-> OtherBody(Named("ForceFeedback"), I16AsU16(effect_id),
                               cycle_count)], wrote)

\* Device::disable_force_feedback_effect
DisableForceFeedbackEffect(effect_id, wrote) ==
  EmitInto([body |-> OtherBody(Named("ForceFeedback"), I16AsU16(effect_id), 0)], wrote)

(***************************************************************************)
(* SpecDevice: a Device is opened once; the kernel then queues records,    *)
(* and the program calls Device::read, Device::emit and (on the virtual    *)
(* device behind it) VirtualDevice::emit, at most MaxCalls times.  A panic *)
(* ends the run.                                                           *)
(*   dev.produced  the records the kernel queued, oldest first             *)
(*   dev.taken     how many of them a read system call has handed out      *)
(*   dev.returned  the events Device::read returned, in call order         *)
(*   dev.last      the last call: [op, arg, syscalls, ret]                 *)
(***************************************************************************)
MaxRecords == 2
MaxCalls == 3

OpenAnswers == {[result |-> 3, errno |-> 0], [result |-> -1, errno |-> ENOENT]}
GetflAnswers == {[result |-> O_RDWR, errno |-> 0], [result |-> -1, errno |-> EBADF]}
SetflAnswers == {[result |-> 0, errno |-> 0], [result |-> -1, errno |-> EBADF]}
ClockAnswers == {[result |-> 0, errno |-> 0], [result |-> -1, errno |-> EINVAL]}

KernelRecordSamples ==
  {RawInputEvent([sec |-> 12, usec |-> 999999], 1, 30, 1),
   RawInputEvent([sec |-> 13, usec |-> 0], 2, 0, -1),
   RawInputEvent([sec |-> 13, usec |-> 0], 0, 0, 0)}

EmitSamples ==
  {InputEvent([sec |-> 12, usec |-> 999999], KeyPress(Named("A"))),
   InputEvent([sec |-> 0, usec |-> 0], Flush),
   InputEvent([sec |-> 7, usec |-> 1], OtherBody(Named("Misc"), 4, I32Min))}

DeviceTimeouts ==
  {[some |-> FALSE, secs |-> 0, nanos |-> 0],
   [some |-> TRUE, secs |-> 1, nanos |-> 500000000]}

DevicePollAnswers ==
  {[result |-> -1, errno |-> EINTR, revents |-> 0],
   [result |-> -1, errno |-> EBADF, revents |-> 0],
   [result |-> 0, errno |-> 0, revents |-> 0],
   [result |-> 1, errno |-> 0, revents |-> POLLIN],
   [result |-> 1, errno |-> 0, revents |-> POLLHUP],
   [result |-> 1, errno |-> 0, revents |-> POLLERR]}

\* RawInputEvent::default()
DefaultRecord == RawInputEvent([sec |-> 0, usec |-> 0], 0, 0, 0)

\* what read( fd, buffer, 24 ) can answer: the oldest queued record, nothing,
\* an error, or a count that is not the record size
ReadAnswers(queue) ==
  {[result |-> -1, errno |-> EAGAIN, buffer |-> DefaultRecord],
   [result |-> 0, errno |-> 0, buffer |-> DefaultRecord],
   [result |-> 8, errno |-> 0, buffer |-> DefaultRecord]}
  \cup (IF queue = <<>> THEN {}
        ELSE {[result |-> RecordSize, errno |-> 0, buffer |-> Head(queue)]})

WriteAnswers ==
  {[result |-> RecordSize, errno |-> 0], [result |-> -1, errno |-> EINVAL],
   [result |-> 0, errno |-> 0], [result |-> 8, errno |-> 0]}

\* ids a ForceFeedbackEffectId can hold: upload_force_feedback_effect asserts
\* 0 <= id <= std::i16::MAX
EffectIdSamples == {0, 1, FF_GAIN - 1, FF_GAIN, I16Max}

CycleCountSamples == {I32Min, -1, 0, 1, I32Max}

NoCall == [op |-> "none", arg |-> <<>>, syscalls |-> <<>>, ret |-> IoOk(<<>>)]

\* the records queued and not yet handed out
Queue == SubSeq(dev.produced, dev.taken + 1, Len(dev.produced))

InitDevice ==
  /\ dev = [pc |-> "closed", nonblock |-> FALSE, monotonic |-> FALSE,
            produced |-> <<>>, taken |-> 0, returned |-> <<>>, calls |-> 0,
            last |-> NoCall]
  /\ codec = Idle /\ iter = Idle /\ poll = Idle /\ effect = Idle
  /\ create = Idle /\ vdev = Idle /\ time = Idle

\* Device::open( path )
Open ==
  /\ dev.pc = "closed"
  /\ \E opened \in OpenAnswers, getfl \in GetflAnswers, setfl \in SetflAnswers,
        clock \in ClockAnswers :
       LET run == DeviceOpen(opened, getfl, setfl, clock)
           n == Len(run.syscalls)
       IN  dev' = [dev EXCEPT
                     !.pc = IF run.ret.is = "Ok" THEN "open" ELSE "failed",
                     !.nonblock = n >= 3 /\ setfl.result = 0,
                     !.monotonic = n >= 4 /\ clock.result = 0,
                     !.last = [op |-> "open", arg |-> <<>>,
                               syscalls |-> run.syscalls, ret |-> run.ret]]
  /\ UNCHANGED <<codec, iter, poll, effect, create, vdev, time>>

\* the kernel queues one more record for the reader
KernelQueue ==
  /\ dev.pc = "open"
  /\ Len(dev.produced) < MaxRecords
  /\ \E record \in KernelRecordSamples :
       dev' = [dev EXCEPT !.produced = Append(@, record)]
  /\ UNCHANGED <<codec, iter, poll, effect, create, vdev, time>>

\* device.read( timeout )
Read ==
  /\ dev.pc = "open"
  /\ dev.calls < MaxCalls
  /\ \E timeout \in DeviceTimeouts, outcome \in DevicePollAnswers,
        got \in ReadAnswers(Queue) :
       LET run == DeviceRead(timeout, outcome, got)
           handed == Len(run.syscalls) = 2 /\ got.result = RecordSize
       IN  dev' = [dev EXCEPT
                     !.pc = IF run.ret.is = "panic" THEN "aborted" ELSE @,
                     !.calls = @ + 1,
                     !.taken = IF handed THEN @ + 1 ELSE @,
                     !.returned = IF run.ret.is = "Ok" THEN @ \o run.ret.opt ELSE @,
                     !.last = [op |-> "read", arg |-> <<timeout>>,
                               syscalls |-> run.syscalls, ret |-> run.ret]]
  /\ UNCHANGED <<codec, iter, poll, effect, create, vdev, time>>

\* device.emit( event )
Emit ==
  /\ dev.pc = "open"
  /\ dev.calls < MaxCalls
  /\ \E event \in EmitSamples, wrote \in WriteAnswers :
       LET run == EmitInto(event, wrote)
       IN  dev' = [dev EXCEPT
                     !.pc = IF run.ret.is = "panic" THEN "aborted" ELSE @,
                     !.calls = @ + 1,
                     !.last = [op |-> "Device::emit", arg |-> <<event>>,
                               syscalls |-> run.syscalls, ret |-> run.ret]]
  /\ UNCHANGED <<codec, iter, poll, effect, create, vdev, time>>

\* virtual_device.emit( event ), on the virtual device the Device reads from
VirtualEmit ==
  /\ dev.pc = "open"
  /\ dev.calls < MaxCalls
  /\ \E event \in EmitSamples, wrote \in WriteAnswers :
       LET run == EmitInto(event, wrote)
       IN  dev' = [dev EXCEPT
                     !.pc = IF run.ret.is = "panic" THEN "aborted" ELSE @,
                     !.calls = @ + 1,
                     !.last = [op |-> "VirtualDevice::emit", arg |-> <<event>>,
                               syscalls |-> run.syscalls, ret |-> run.ret]]
  /\ UNCHANGED <<codec, iter, poll, effect, create, vdev, time>>

\* device.enable_force_feedback_effect( effect_id, cycle_count )
EnableEffect ==
  /\ dev.pc = "open"
  /\ dev.calls < MaxCalls
  /\ \E effect_id \in EffectIdSamples, cycle_count \in CycleCountSamples,
        wrote \in WriteAnswers :
       LET run == EnableForceFeedbackEffect(effect_id, cycle_count, wrote)
       IN  dev' = [dev EXCEPT
                     !.pc = IF run.ret.is = "panic" THEN "aborted" ELSE @,
                     !.calls = @ + 1,
                     !.last = [op |-> "enable_force_feedback_effect",
                               arg |-> <<effect_id, cycle_count>>,
                               syscalls |-> run.syscalls, ret |-> run.ret]]
  /\ UNCHANGED <<codec, iter, poll, effect, create, vdev, time>>

\* device.disable_force_feedback_effect( effect_id )
DisableEffect ==
  /\ dev.pc = "open"
  /\ dev.calls < MaxCalls
  /\ \E effect_id \in EffectIdSamples, wrote \in WriteAnswers :
       LET run == DisableForceFeedbackEffect(effect_id, wrote)
       IN  dev' = [dev EXCEPT
                     !.pc = IF run.ret.is = "panic" THEN "aborted" ELSE @,
                     !.calls = @ + 1,
                     !.last = [op |-> "disable_force_feedback_effect",
                               arg |-> <<effect_id, 0>>,
                               syscalls |-> run.syscalls, ret |-> run.ret]]
  /\ UNCHANGED <<codec, iter, poll, effect, create, vdev, time>>

NextDevice == Open \/ KernelQueue \/ Read \/ Emit \/ VirtualEmit

SpecDevice == InitDevice /\ [][NextDevice]_vars

\* C13: Device::open returns Ok only if the open, the read of the flags, the
\* write of the flags with O_NONBLOCK and the switch to the monotonic clock all
\* succeeded (the handle is then non-blocking and on the monotonic clock); if
\* any of these system calls fails, open returns Err.
C13_OpenAllOrNothing ==
  dev.last.op = "open" =>
    /\ dev.last.ret.is = "Ok"
         => /\ Len(dev.last.syscalls) = 4
            /\ \A i \in 1..4 : dev.last.syscalls[i].result >= 0
            /\ dev.nonblock /\ dev.monotonic
    /\ (\E i \in 1..Len(dev.last.syscalls) : dev.last.syscalls[i].result < 0)
         => dev.last.ret.is = "Err"

\* the wait of a read call reported the handle ready
PollReady(call) ==
  /\ call.result > 0
  /\ HasBit(call.arg.revents, POLLIN) \/ HasBit(call.arg.revents, POLLHUP)

\* C14: a call of Device::read issues one ppoll and after it at most one read of
\* the record size, and the read only when the wait reported ready.  Not ready
\* gives Ok(None) without a read; a read of the full record size gives Some of
\* the decoded record (the oldest one queued); a read of zero bytes gives
\* Ok(None); a failed read gives Err.
C14_ReadOnce ==
  dev.last.op = "read" =>
    LET calls == dev.last.syscalls
        ret == dev.last.ret
    IN  /\ Len(calls) \in {1, 2}
        /\ calls[1].call = "ppoll"
        /\ Len(calls) = 2 =>
             /\ calls[2].call = "read" /\ calls[2].arg = RecordSize
             /\ PollReady(calls[1])
        /\ (Len(calls) = 1 /\ (calls[1].result >= 0 \/ calls[1].errno = EINTR))
             => ~PollReady(calls[1]) /\ ret = IoOk(<<>>)
        /\ (Len(calls) = 2 /\ calls[2].result = RecordSize)
             => ret = IoOk(<<InputEventFromRaw(dev.produced[dev.taken])>>)
        /\ (Len(calls) = 2 /\ calls[2].result = 0) => ret = IoOk(<<>>)
        /\ (Len(calls) = 2 /\ calls[2].result < 0) => ret = IoErr(calls[2].errno)

C14_Witness ==
  /\ dev.last.op = "read"
  /\ dev.calls = 3
  /\ Len(dev.last.syscalls) = 2
  /\ dev.last.syscalls[2].result = 0
  /\ dev.last.ret = IoOk(<<>>)
  /\ Len(dev.returned) = 1
  /\ dev.taken = 1

IsEmit(op) == op \in {"Device::emit", "VirtualDevice::emit"}

\* C15: a write of emit that transfers a byte count other than the record size,
\* and a read that returns a non-zero byte count other than the record size,
\* end in a panic (never in Ok or Err) and end the run; a negative result of
\* write or of read is returned as Err with the errno of that call.
C15_FramingIsFatal ==
  /\ IsEmit(dev.last.op) =>
       LET w == dev.last.syscalls[1]
       IN  /\ (w.result >= 0 /\ w.result # RecordSize)
                => dev.last.ret = IoPanic /\ dev.pc = "aborted"
           /\ w.result < 0 => dev.last.ret = IoErr(w.errno)
           /\ dev.last.ret.is = "Ok" => w.result = RecordSize
  /\ (dev.last.op = "read" /\ Len(dev.last.syscalls) = 2) =>
       LET r == dev.last.syscalls[2]
       IN  /\ (r.result > 0 /\ r.result # RecordSize)
                => dev.last.ret = IoPanic /\ dev.pc = "aborted"
           /\ r.result < 0 => dev.last.ret = IoErr(r.errno)
           /\ dev.last.ret.is = "Ok" => r.result \in {0, RecordSize}

C15_Witness ==
  /\ dev.last.op = "read"
  /\ Len(dev.last.syscalls) = 2
  /\ dev.last.syscalls[2].result = 8
  /\ dev.last.ret = IoPanic
  /\ dev.pc = "aborted"
  /\ dev.produced # <<>>

\* C16: the record written by Device::emit and by VirtualDevice::emit has a zero
\* timestamp whatever the timestamp of the event passed, and its kind, code and
\* value are those of the encoding of the event's body; it decodes to that
\* body.
C16_EmitZeroTimestamp ==
  IsEmit(dev.last.op) =>
    LET event == dev.last.arg[1]
        written == dev.last.syscalls[1].arg
        encoded == RawFromInputEvent(event)
    IN  /\ Len(dev.last.syscalls) = 1
        /\ dev.last.syscalls[1].call = "write"
        /\ written.timestamp.sec = 0 /\ written.timestamp.usec = 0
        /\ written.kind = encoded.kind
        /\ written.code = encoded.code
        /\ written.value = encoded.value
        /\ InputEventFromRaw(written).body = event.body

C16_Witness ==
  /\ dev.last.op = "VirtualDevice::emit"
  /\ dev.last.arg[1].timestamp = [sec |-> 12, usec |-> 999999]
  /\ dev.last.syscalls[1].arg = RawInputEvent([sec |-> 0, usec |-> 0], 1, 30, 1)
  /\ dev.last.ret = IoOk(<<>>)

\* C20: the events Device::read has returned are the decoded records the kernel
\* queued, in the kernel's order: the i-th event returned is the i-th record
\* queued, and every record a read took from the queue was returned.
C20_ReadOrder ==
  dev.pc \in {"open", "aborted"} =>
    /\ Len(dev.returned) = dev.taken
    /\ dev.taken <= Len(dev.produced)
    /\ \A i \in 1..Len(dev.returned) :
         dev.returned[i] = InputEventFromRaw(dev.produced[i])

C20_Witness ==
  /\ dev.pc = "open"
  /\ dev.calls = 3
  /\ Len(dev.returned) = 2
  /\ dev.returned[1] # dev.returned[2]
  /\ dev.returned[2].body = RelativeMove(Named("X"), -1)
  /\ dev.produced[2] = RawInputEvent([sec |-> 13, usec |-> 0], 2, 0, -1)

(***************************************************************************)
(* SpecEffectControl: a Device is opened once; the program then enables    *)
(* and disables force-feedback effects on it, at most MaxCalls times.      *)
(***************************************************************************)
NextEffectControl == Open \/ EnableEffect \/ DisableEffect

SpecEffectControl == InitDevice /\ [][NextEffectControl]_vars

\* what poll_force_feedback returns when the record it reads is this one
Classified(record) ==
  PollForceFeedbackOf([last |-> FFRequest("none", 0, 0)],
                      [is |-> "event", event |-> record],
                      [ok |-> TRUE, errno |-> 0, effect_kind |-> 0,
                       effect_id |-> 0]).last

\* enable and disable write one record: force-feedback kind, the effect id as
\* code, and cycle_count (enable) or 0 (disable) as value
EmitsEffectRecord ==
  /\ Len(dev.last.syscalls) = 1
  /\ dev.last.syscalls[1].call = "write"
  /\ dev.last.syscalls[1].arg.kind = EV_FF
  /\ dev.last.syscalls[1].arg.code = dev.last.arg[1]
  /\ dev.last.syscalls[1].arg.value = dev.last.arg[2]

\* C22 as stated: enable_force_feedback_effect and disable_force_feedback_effect
\* write one such record, and poll_force_feedback classifies it as Enable with
\* the same id and cycle count exactly when it comes from an enable with
\* cycle_count > 0, and as Disable with the same id otherwise.
C22_EnableDisableSeen ==
  dev.last.op \in {"enable_force_feedback_effect", "disable_force_feedback_effect"} =>
    LET id == dev.last.arg[1]
        count == dev.last.arg[2]
        seen == Classified(dev.last.syscalls[1].arg)
    IN  /\ EmitsEffectRecord
        /\ (dev.last.op = "enable_force_feedback_effect" /\ count > 0)
             => seen = FFRequest("Enable", id, count)
        /\ (dev.last.op = "enable_force_feedback_effect" /\ count <= 0)
             => seen = FFRequest("Disable", id, 0)
        /\ dev.last.op = "disable_force_feedback_effect"
             => seen = FFRequest("Disable", id, 0)

\* C22, amended: as above for an effect id below FF_GAIN; a record whose effect
\* id is FF_GAIN or more is classified as Other with that code and value.
C22_EnableDisableSeenBelowGain ==
  dev.last.op \in {"enable_force_feedback_effect", "disable_force_feedback_effect"} =>
    LET id == dev.last.arg[1]
        count == dev.last.arg[2]
        seen == Classified(dev.last.syscalls[1].arg)
    IN  /\ EmitsEffectRecord
        /\ (id < FF_GAIN /\ dev.last.op = "enable_force_feedback_effect" /\ count > 0)
             => seen = FFRequest("Enable", id, count)
        /\ (id < FF_GAIN /\ dev.last.op = "enable_force_feedback_effect" /\ count <= 0)
             => seen = FFRequest("Disable", id, 0)
        /\ (id < FF_GAIN /\ dev.last.op = "disable_force_feedback_effect")
             => seen = FFRequest("Disable", id, 0)
        /\ id >= FF_GAIN => seen = FFRequest("Other", id, count)

C22_Witness ==
  /\ dev.last.op = "enable_force_feedback_effect"
  /\ dev.last.arg = <<FF_GAIN - 1, I32Max>>
  /\ dev.last.ret = IoOk(<<>>)
  /\ Classified(dev.last.syscalls[1].arg) = FFRequest("Enable", FF_GAIN - 1, I32Max)

(***************************************************************************)
(* Timestamp (input_sys.rs): seconds and microseconds, and the Duration    *)
(* between two of them.  A Duration is [secs, nanos] with nanos below      *)
(* 10^9; a subtraction that would be negative panics.                      *)
(***************************************************************************)
NanosPerSec == 1000000000
MicrosPerSec == 1000000
NanosPerMicro == 1000

Timestamp(sec, usec) == [sec |-> sec, usec |-> usec]

\* Duration::new( secs, nanos ): whole seconds in nanos are carried into secs
DurationNew(secs, nanos) ==
  Duration(secs + nanos \div NanosPerSec, nanos % NanosPerSec)

\* impl Sub for Duration: checked_sub(..).expect(..)
DurationSub(x, y) ==
  IF x.secs < y.secs \/ (x.secs = y.secs /\ x.nanos < y.nanos)
  THEN [is |-> "panic", d |-> Duration(0, 0)]
  ELSE IF x.nanos >= y.nanos
  THEN [is |-> "Ok", d |-> Duration(x.secs - y.secs, x.nanos - y.nanos)]
  ELSE [is |-> "Ok", d |-> Duration(x.secs - y.secs - 1,
                                     (x.nanos + NanosPerSec) - y.nanos)]

\* impl Sub for Timestamp: sec as u64 is the seconds and usec as u32 is passed
\* as the nanoseconds of Duration::new (the fields sampled are not negative,
\* so both casts keep the value)
TimestampSub(a, b) ==
  DurationSub(DurationNew(a.sec, a.usec), DurationNew(b.sec, b.usec))

(***************************************************************************)
(* SpecTime: two timestamps with non-negative fields are subtracted.       *)
(***************************************************************************)
SubSamples ==
  {Timestamp(sec, usec) : sec \in {0, 1, 12, 2147482},
                          usec \in {0, 1, 500000, 999999}}

InitTime ==
  /\ time = [pc |-> "ready"]
  /\ codec = Idle /\ iter = Idle /\ poll = Idle /\ effect = Idle
  /\ create = Idle /\ vdev = Idle /\ dev = Idle

\* a - b
Sub ==
  /\ time.pc = "ready"
  /\ \E a \in SubSamples, b \in SubSamples :
       time' = [pc |-> "done", a |-> a, b |-> b, result |-> TimestampSub(a, b)]
  /\ UNCHANGED <<codec, iter, poll, effect, create, vdev, dev>>

NextTime == Sub

SpecTime == InitTime /\ [][NextTime]_vars

\* a is not earlier than b
NotEarlier(a, b) == a.sec > b.sec \/ (a.sec = b.sec /\ a.usec >= b.usec)

\* (a.sec - b.sec) seconds plus (a.usec - b.usec) microseconds, as a Duration
Elapsed(a, b) ==
  IF a.usec >= b.usec
  THEN Duration(a.sec - b.sec, (a.usec - b.usec) * NanosPerMicro)
  ELSE Duration(a.sec - b.sec - 1,
                ((a.usec + MicrosPerSec) - b.usec) * NanosPerMicro)

\* C24: for two timestamps a and b with non-negative fields, microseconds
\* below 1000000 and a not earlier than b, a - b is the elapsed time between
\* them: (a.sec - b.sec) seconds plus (a.usec - b.usec) microseconds.
C24_SubIsElapsed ==
  (/\ time.pc = "done"
   /\ time.a.sec >= 0 /\ time.b.sec >= 0
   /\ time.a.usec \in 0..(MicrosPerSec - 1) /\ time.b.usec \in 0..(MicrosPerSec - 1)
   /\ NotEarlier(time.a, time.b))
    => time.result = [is |-> "Ok", d |-> Elapsed(time.a, time.b)]

====
